---- MODULE Spec2Model ----
(***************************************************************************)
(* Model of the bth-algo organisation manager: the settings diff           *)
(* (src/utils/settings-diff.js), the organisation service                  *)
(* (OrganizationService in src/services/branch.service.js) and the         *)
(* configure-org / restore-org commands of the CLI (src/unnamed/part_001). *)
(***************************************************************************)
EXTENDS Naturals, Integers, Sequences, FiniteSets, TLC

VARIABLES
    eqCall,     \* one call of SettingsDiff.isEqual: arguments and result
    diffCall,   \* one call of SettingsDiff.compare: arguments and result
    rsCall,     \* one call of createBranchRuleset / updateBranchRuleset
    store,      \* the backup directory as BackupManager sees it, and the clock
    utilCall,   \* one call of a reader of the service or of PromptManager.confirm
    remote,     \* the state of the organisation on the remote platform
    files,      \* the declarations under org-settings/
    backups,    \* the snapshot files under org-settings/backups
    cmd,        \* the command running: configure-org or restore-org
    pc,         \* where the command's action stands
    cur,        \* the current settings the command read at its start
    goal,       \* the desired settings: declarations loaded, or the snapshot read
    work,       \* what is left of the loop of the category being processed
    results,    \* results = { successful, failed, skipped }
    log,        \* history: every prompt and every remote call, in order
    run         \* number of the run (1 for the first command started)

utilVars == <<store, utilCall>>
pureVars == <<eqCall, diffCall, rsCall, store, utilCall>>
runVars == <<remote, files, backups, cmd, pc, cur, goal, work, results, log, run>>
vars == <<eqCall, diffCall, rsCall, store, utilCall,
          remote, files, backups, cmd, pc, cur, goal,
          work, results, log, run>>

(***************************************************************************)
(* Bounds of the model.                                                    *)
(***************************************************************************)
\* numbers 1..MaxNum occur as scalar values
MaxNum == 1
\* arrays hold at most MaxLen elements
MaxLen == 1

(***************************************************************************)
(* JavaScript values.  A value is a record tagged with its kind.  A string *)
(* holds its characters as a Text: either characters that are not JSON     *)
(* (Raw) or the JSON serialisation of a value (Json), so that "5" and 5    *)
(* are different values with the same text.                                *)
(***************************************************************************)
Undef == [kind |-> "undefined"]
Null == [kind |-> "null"]
Num(n) == [kind |-> "number", n |-> n]
Bool(t) == [kind |-> "boolean", t |-> t]
Str(s) == [kind |-> "string", s |-> s]
Arr(items) == [kind |-> "array", items |-> items]
Obj(map) == [kind |-> "object", map |-> map]

Raw(c) == [raw |-> c]
Json(v) == [json |-> v]

\* the empty mapping {}
EmptyMap == [k \in {} |-> Undef]

\* typeof v
TypeOf(v) ==
    CASE v.kind = "undefined" -> "undefined"
      [] v.kind \in {"null", "array", "object"} -> "object"
      [] OTHER -> v.kind

\* v == null (loose): null or undefined
IsNullish(v) == v.kind \in {"undefined", "null"}

\* a === b.  Primitives compare by value.  Two composite values are never
\* the same reference here: the values compared come from separate sources
\* (the remote platform and a parsed file), so the structural path of
\* isEqual decides them.
StrictEq(a, b) ==
    /\ a.kind = b.kind
    /\ a.kind \notin {"array", "object"}
    /\ a = b

\* the property name of array index i (0-based)
IndexNames == <<"0", "1", "2", "3">>
IndexName(i) == IndexNames[i + 1]

\* Object.keys(v) of a composite value, as a set
OwnKeys(v) ==
    IF v.kind = "array"
    THEN {IndexName(i - 1) : i \in 1..Len(v.items)}
    ELSE DOMAIN v.map

\* v[key] of a composite value, for key \in OwnKeys(v)
Prop(v, key) ==
    IF v.kind = "array"
    THEN v.items[CHOOSE i \in 1..Len(v.items) : IndexName(i - 1) = key]
    ELSE v.map[key]

RECURSIVE isEqual(_, _)

\* isEqual without the early return of line 50 (a === b)
isEqualNoIdentity(a, b) ==
    IF IsNullish(a) \/ IsNullish(b) THEN FALSE
    ELSE IF TypeOf(a) # TypeOf(b) THEN FALSE
    ELSE IF TypeOf(a) = "object"
         THEN /\ Cardinality(OwnKeys(a)) = Cardinality(OwnKeys(b))
              /\ \A key \in OwnKeys(a) :
                    key \in OwnKeys(b) /\ isEqual(Prop(a, key), Prop(b, key))
    ELSE FALSE

\* SettingsDiff.isEqual(a, b)
isEqual(a, b) ==
    IF StrictEq(a, b) THEN TRUE
    ELSE IF IsNullish(a) \/ IsNullish(b) THEN FALSE
    ELSE IF TypeOf(a) # TypeOf(b) THEN FALSE
    ELSE IF TypeOf(a) = "object"
         THEN /\ Cardinality(OwnKeys(a)) = Cardinality(OwnKeys(b))
              /\ \A key \in OwnKeys(a) :
                    key \in OwnKeys(b) /\ isEqual(Prop(a, key), Prop(b, key))
    ELSE FALSE

(***************************************************************************)
(* Settings objects: a mapping from the keys it has to values.  A key may  *)
(* be present with the value undefined.  Object.keys / Object.entries      *)
(* enumerate in insertion order; the model enumerates in the fixed order   *)
(* KeyOrder.                                                               *)
(***************************************************************************)
KeyOrder == <<"A", "B", "S", "members_can_create_teams", "default_repository_permission">>

\* obj[key]
Get(obj, key) == IF key \in DOMAIN obj THEN obj[key] ELSE Undef

\* Object.keys(obj)
ObjectKeys(obj) == SelectSeq(KeyOrder, LAMBDA k : k \in DOMAIN obj)

Change(key, type, currentValue, newValue) ==
    [key |-> key, type |-> type, currentValue |-> currentValue, newValue |-> newValue]

RECURSIVE changedOf(_, _, _)
\* first loop of compare over the entries keys of desired
changedOf(current, desired, keys) ==
    IF keys = <<>> THEN <<>>
    ELSE LET key == Head(keys)
             currentValue == Get(current, key)
             desiredValue == desired[key]
             rest == changedOf(current, desired, Tail(keys))
         IN IF ~isEqual(currentValue, desiredValue)
            THEN <<Change(key,
                          IF currentValue = Undef THEN "add" ELSE "update",
                          currentValue, desiredValue)>> \o rest
            ELSE rest

RECURSIVE removedOf(_, _, _)
\* second loop of compare over the keys of current
removedOf(current, desired, keys) ==
    IF keys = <<>> THEN <<>>
    ELSE LET key == Head(keys)
             rest == removedOf(current, desired, Tail(keys))
         IN IF key \notin DOMAIN desired
            THEN <<Change(key, "remove", current[key], Undef)>> \o rest
            ELSE rest

\* SettingsDiff.compare(current, desired)
compare(current, desired) ==
    changedOf(current, desired, ObjectKeys(desired))
        \o removedOf(current, desired, ObjectKeys(current))

(***************************************************************************)
(* Text forms of values, as setActionVariable writes them and              *)
(* getActionVariables reads them back.                                     *)
(***************************************************************************)
\* String(value) of a value that is not an object
StringOf(value) ==
    CASE value.kind = "undefined" -> Raw("undefined")
      [] value.kind = "string" -> value.s
      [] OTHER -> Json(value)

\* typeof value === 'object' ? JSON.stringify(value) : String(value)
ToStringValue(value) ==
    IF TypeOf(value) = "object" THEN Json(value) ELSE StringOf(value)

\* try { JSON.parse(text) } catch { text }
ParseOrKeep(text) ==
    IF "json" \in DOMAIN text THEN text.json ELSE Str(text)

\* JSON.parse(JSON.stringify(obj)) of a settings object: a key whose value
\* is undefined is not written
JsonRoundTrip(obj) ==
    [k \in {x \in DOMAIN obj : obj[x] # Undef} |-> obj[k]]

(***************************************************************************)
(* History of a run: prompts answered and remote calls issued.             *)
(***************************************************************************)
\* a confirmation prompt about `key` of category `cat`, and its answer
Prompt(cat, key, answer) ==
    [ev |-> "prompt", op |-> "confirm", cat |-> cat, key |-> key, sub |-> "", ok |-> answer]

\* a call `op` of the platform API for `key` (and its part `sub`) of category
\* `cat`; ok: it succeeded
CallSub(op, cat, key, sub, ok) ==
    [ev |-> "call", op |-> op, cat |-> cat, key |-> key, sub |-> sub, ok |-> ok]

Call(op, cat, key, ok) == CallSub(op, cat, key, "", ok)

\* the API operations that change the remote state
WriteOps ==
    {"updateOrgVariable", "createOrgVariable", "createOrUpdateOrgSecret", "orgs.update",
     "createOrgRuleset", "updateOrgRuleset", "teams.create", "teams.updateInOrg",
     "addOrUpdateMembershipForUserInOrg", "createLabel", "updateLabel"}

IsWrite(e) == e.ev = "call" /\ e.op \in WriteOps

\* what a remote call may do: succeed, or fail with an error of the platform
Outcomes == {"ok", "fail"}

(***************************************************************************)
(* OrganizationService: variables, secrets, member privileges.  Every      *)
(* operation yields the remote state after it, whether it returned (ok) or *)
(* threw, and the calls it issued.                                         *)
(***************************************************************************)
\* getActionVariables(): every remote variable, its value parsed as JSON
\* where it parses
getActionVariables(r) ==
    [name \in DOMAIN r.variables |-> ParseOrKeep(r.variables[name])]

\* setActionVariable(name, value)
setActionVariable(r, name, value, outcome) ==
    LET stringValue == ToStringValue(value)
        exists == name \in DOMAIN r.variables
        write == IF exists THEN "updateOrgVariable" ELSE "createOrgVariable"
        ok == outcome = "ok"
    IN [ok |-> ok,
        remote |-> IF ok
                   THEN [r EXCEPT !.variables =
                            [k \in DOMAIN r.variables \cup {name} |->
                                IF k = name THEN stringValue ELSE r.variables[k]]]
                   ELSE r,
        calls |-> <<Call("getOrgVariable", "Variable", name, exists),
                    Call(write, "Variable", name, ok)>>]

\* a listing of the secrets that returns what is stored instead of the names
getActionSecretValues(r) ==
    LET names == SelectSeq(KeyOrder, LAMBDA k : k \in DOMAIN r.secrets)
    IN [i \in 1..Len(names) |-> r.secrets[names[i]].s.raw]

\* getActionSecretNames()
getActionSecretNames(r) == SelectSeq(KeyOrder, LAMBDA k : k \in DOMAIN r.secrets)

\* setActionSecret(name, value): the value sealed with the organisation's
\* public key and stored; it cannot be read back
setActionSecret(r, name, value, outcome) ==
    LET ok == outcome = "ok"
    IN [ok |-> ok,
        remote |-> IF ok
                   THEN [r EXCEPT !.secrets =
                            [k \in DOMAIN r.secrets \cup {name} |->
                                IF k = name THEN value ELSE r.secrets[k]]]
                   ELSE r,
        calls |-> <<Call("getOrgPublicKey", "Secret", name, TRUE),
                    Call("createOrUpdateOrgSecret", "Secret", name, ok)>>]

\* the fields getMemberPrivileges copies from the organisation
PrivilegeKeys == {"members_can_create_teams", "default_repository_permission"}

\* getMemberPrivileges(): every field is a key of the result; a field the
\* platform does not return has the value undefined
getMemberPrivileges(r) == [k \in PrivilegeKeys |-> Get(r.org, k)]

\* updateMemberPrivileges({ [key]: value }); a parameter that is undefined
\* is not sent
updateMemberPrivileges(r, key, value, outcome) ==
    LET ok == outcome = "ok"
    IN [ok |-> ok,
        remote |-> IF ok /\ value # Undef
                   THEN [r EXCEPT !.org =
                            [k \in DOMAIN r.org \cup {key} |->
                                IF k = key THEN value ELSE r.org[k]]]
                   ELSE r,
        calls |-> <<Call("orgs.update", "Privilege", key, ok)>>]

(***************************************************************************)
(* OrganizationService: teams and branch rulesets.                         *)
(***************************************************************************)
\* name.toLowerCase() alone over the team names of the model
SlugifyLowerOnly(name) ==
    CASE name = "Staff" -> "staff"
      [] name = "Course  Staff" -> "course  staff"
      [] OTHER -> name

\* name.toLowerCase().replace(/\s+/g, '-') over the team names of the model
Slugify(name) ==
    CASE name = "Staff" -> "staff"
      [] name = "Course  Staff" -> "course-staff"
      [] OTHER -> name

\* position in r.teams of the team with that slug, 0 if there is none
TeamIndex(teams, slug) ==
    IF \E i \in 1..Len(teams) : teams[i].slug = slug
    THEN CHOOSE i \in 1..Len(teams) : teams[i].slug = slug
    ELSE 0

\* a fresh identifier of the platform
NextId(items) ==
    IF items = <<>> THEN 1
    ELSE 1 + (CHOOSE m \in {items[i].id : i \in 1..Len(items)} :
                 \A i \in 1..Len(items) : items[i].id <= m)

\* getTeamId(teamSlug): teams.getByName with team_slug: teamSlug
getTeamId(r, teamSlug) ==
    LET i == TeamIndex(r.teams, teamSlug)
    IN [ok |-> i # 0, id |-> IF i # 0 THEN r.teams[i].id ELSE 0]

\* actor.actor_type === 'Team' && actor.team
IsTeamReference(actor) ==
    /\ "actor_type" \in DOMAIN actor /\ actor.actor_type = "Team"
    /\ "team" \in DOMAIN actor /\ actor.team # ""

\* { ...actor } with actor_id set and the helper field team deleted
ResolvedActor(actor, id) ==
    [f \in (DOMAIN actor \ {"team"}) \cup {"actor_id"} |->
        IF f = "actor_id" THEN id ELSE actor[f]]

\* a resolution that lets an actor whose team is not found through,
\* unresolved, instead of throwing
resolveLeniently(r, bypassActors) ==
    LET refs == SelectSeq(bypassActors, IsTeamReference)
    IN [ok |-> TRUE,
        resolved |-> [i \in 1..Len(bypassActors) |->
                        IF IsTeamReference(bypassActors[i])
                           /\ getTeamId(r, bypassActors[i].team).ok
                        THEN ResolvedActor(bypassActors[i],
                                           getTeamId(r, bypassActors[i].team).id)
                        ELSE bypassActors[i]],
        team |-> "",
        calls |-> [i \in 1..Len(refs) |->
                     Call("teams.getByName", "Ruleset", refs[i].team,
                          getTeamId(r, refs[i].team).ok)]]

RECURSIVE resolveBypassActors(_, _)
\* resolveBypassActors(bypassActors): actor by actor; the first team that
\* cannot be looked up throws, naming it
resolveBypassActors(r, bypassActors) ==
    IF bypassActors = <<>>
    THEN [ok |-> TRUE, resolved |-> <<>>, team |-> "", calls |-> <<>>]
    ELSE LET actor == Head(bypassActors)
         IN IF IsTeamReference(actor)
            THEN LET found == getTeamId(r, actor.team)
                     call == Call("teams.getByName", "Ruleset", actor.team, found.ok)
                 IN IF ~found.ok
                    THEN [ok |-> FALSE, resolved |-> <<>>, team |-> actor.team,
                          calls |-> <<call>>]
                    ELSE LET rest == resolveBypassActors(r, Tail(bypassActors))
                         IN [ok |-> rest.ok,
                             resolved |-> IF rest.ok
                                          THEN <<ResolvedActor(actor, found.id)>>
                                                   \o rest.resolved
                                          ELSE <<>>,
                             team |-> rest.team,
                             calls |-> <<call>> \o rest.calls]
            ELSE LET rest == resolveBypassActors(r, Tail(bypassActors))
                 IN [ok |-> rest.ok,
                     resolved |-> IF rest.ok THEN <<actor>> \o rest.resolved ELSE <<>>,
                     team |-> rest.team,
                     calls |-> rest.calls]

\* what an operation threw: nothing, an unresolvable team reference (with
\* the team's name in the message), or an error of the platform
NoError == [kind |-> "none", team |-> ""]
Unresolved(team) == [kind |-> "unresolved", team |-> team]
ApiError == [kind |-> "api", team |-> ""]

\* createBranchRuleset(ruleset)
createBranchRuleset(r, ruleset, outcome) ==
    LET res == resolveBypassActors(r, ruleset.bypass_actors)
        ok == res.ok /\ outcome = "ok"
        created == [id |-> NextId(r.rulesets), name |-> ruleset.name,
                    bypass_actors |-> res.resolved]
    IN [ok |-> ok,
        error |-> IF ~res.ok THEN Unresolved(res.team)
                  ELSE IF ok THEN NoError ELSE ApiError,
        remote |-> IF ok THEN [r EXCEPT !.rulesets = Append(@, created)] ELSE r,
        calls |-> IF res.ok
                  THEN res.calls \o <<Call("createOrgRuleset", "Ruleset", ruleset.name, ok)>>
                  ELSE res.calls]

\* updateBranchRuleset(rulesetId, ruleset)
updateBranchRuleset(r, rulesetId, ruleset, outcome) ==
    LET res == resolveBypassActors(r, ruleset.bypass_actors)
        known == \E i \in 1..Len(r.rulesets) : r.rulesets[i].id = rulesetId
        ok == res.ok /\ known /\ outcome = "ok"
        updated == [id |-> rulesetId, name |-> ruleset.name, bypass_actors |-> res.resolved]
    IN [ok |-> ok,
        error |-> IF ~res.ok THEN Unresolved(res.team)
                  ELSE IF ok THEN NoError ELSE ApiError,
        remote |-> IF ok
                   THEN [r EXCEPT !.rulesets =
                            [i \in 1..Len(@) |-> IF @[i].id = rulesetId THEN updated ELSE @[i]]]
                   ELSE r,
        calls |-> IF res.ok
                  THEN res.calls \o <<Call("updateOrgRuleset", "Ruleset", ruleset.name, ok)>>
                  ELSE res.calls]

\* createTeam(teamConfig): the platform derives the slug and rejects a
\* team whose slug is taken
createTeam(r, teamConfig, outcome) ==
    LET slug == Slugify(teamConfig.name)
        ok == outcome = "ok" /\ TeamIndex(r.teams, slug) = 0
        created == [id |-> NextId(r.teams), slug |-> slug, name |-> teamConfig.name,
                    members |-> EmptyMap]
    IN [ok |-> ok, slug |-> slug,
        remote |-> IF ok THEN [r EXCEPT !.teams = Append(@, created)] ELSE r,
        calls |-> <<Call("teams.create", "Team", teamConfig.name, ok)>>]

\* updateTeam(teamSlug, teamConfig)
updateTeam(r, teamSlug, teamConfig, outcome) ==
    LET i == TeamIndex(r.teams, teamSlug)
        ok == outcome = "ok" /\ i # 0
    IN [ok |-> ok, slug |-> teamSlug,
        remote |-> IF ok
                   THEN [r EXCEPT !.teams[i].name = teamConfig.name,
                                  !.teams[i].slug = Slugify(teamConfig.name)]
                   ELSE r,
        calls |-> <<Call("teams.updateInOrg", "Team", teamConfig.name, ok)>>]

\* addTeamMember(teamSlug, username, role)
addTeamMember(r, teamSlug, username, role, outcome) ==
    LET i == TeamIndex(r.teams, teamSlug)
        ok == outcome = "ok" /\ i # 0
        members == IF i # 0 THEN r.teams[i].members ELSE EmptyMap
    IN [ok |-> ok,
        remote |-> IF ok
                   THEN [r EXCEPT !.teams[i].members =
                            [u \in DOMAIN members \cup {username} |->
                                IF u = username THEN role ELSE members[u]]]
                   ELSE r,
        calls |-> <<CallSub("addOrUpdateMembershipForUserInOrg", "Team", teamSlug, username, ok)>>]

(***************************************************************************)
(* OrganizationService: repositories and labels.                           *)
(***************************************************************************)
\* new RegExp(pattern).test(name) over the patterns and repository names
\* of the model (an unanchored search)
Matches(pattern, name) ==
    CASE pattern = "algo-.*" -> name \in {"algo-1", "algo-2"}
      [] pattern = "template" -> name = "template"
      [] OTHER -> FALSE

\* getRepositories(patterns): all repositories when there is no pattern,
\* else those matching at least one pattern
getRepositories(r, patterns, outcome) ==
    LET ok == outcome = "ok"
        keep(repo) == \E i \in 1..Len(patterns) : Matches(patterns[i], repo.name)
    IN [ok |-> ok,
        repos |-> IF ~ok THEN <<>>
                  ELSE IF patterns = <<>> THEN r.repos
                  ELSE SelectSeq(r.repos, keep),
        calls |-> <<Call("repos.listForOrg", "Labels", "", ok)>>]

\* position of the repository of that name in r.repos
RepoIndex(r, name) == CHOOSE i \in 1..Len(r.repos) : r.repos[i].name = name

RECURSIVE applyLabelsStopping(_, _, _, _, _)
\* a loop over the labels that ends at the first label write that fails
applyLabelsStopping(r, repoName, existingLabelNames, labels, fails) ==
    IF labels = <<>> THEN [remote |-> r, failed |-> <<>>, calls |-> <<>>]
    ELSE LET label == Head(labels)
             exists == label.name \in existingLabelNames
             ok == <<repoName, label.name>> \notin fails
             i == RepoIndex(r, repoName)
             r1 == IF ok THEN [r EXCEPT !.repos[i].labels = @ \cup {label.name}] ELSE r
             call == CallSub(IF exists THEN "updateLabel" ELSE "createLabel",
                             "Labels", repoName, label.name, ok)
             rest == applyLabelsStopping(r1, repoName, existingLabelNames, Tail(labels),
                                         fails)
         IN IF ok THEN [remote |-> rest.remote, failed |-> rest.failed,
                        calls |-> <<call>> \o rest.calls]
            ELSE [remote |-> r,
                  failed |-> <<[repo |-> repoName, label |-> label.name]>>,
                  calls |-> <<call>>]

RECURSIVE applyLabels(_, _, _, _, _)
\* the inner loop of applyLabelsToRepos: each label updated if the listing
\* of the repository held its name, else created; a failure is recorded
\* and the loop goes on
applyLabels(r, repoName, existingLabelNames, labels, fails) ==
    IF labels = <<>> THEN [remote |-> r, failed |-> <<>>, calls |-> <<>>]
    ELSE LET label == Head(labels)
             exists == label.name \in existingLabelNames
             ok == <<repoName, label.name>> \notin fails
             i == RepoIndex(r, repoName)
             r1 == IF ok THEN [r EXCEPT !.repos[i].labels = @ \cup {label.name}] ELSE r
             rest == applyLabels(r1, repoName, existingLabelNames, Tail(labels), fails)
         IN [remote |-> rest.remote,
             failed |-> (IF ok THEN <<>> ELSE <<[repo |-> repoName, label |-> label.name]>>)
                            \o rest.failed,
             calls |-> <<CallSub(IF exists THEN "updateLabel" ELSE "createLabel",
                                 "Labels", repoName, label.name, ok)>> \o rest.calls]

RECURSIVE applyLabelsToRepos(_, _, _, _)
\* applyLabelsToRepos(labels, repos).  fails: the calls that fail, a pair
\* <<repository, label>> for a label write, <<repository, "">> for the
\* listing of the repository's labels
applyLabelsToRepos(r, labels, repos, fails) ==
    IF repos = <<>>
    THEN [remote |-> r, successful |-> <<>>, failed |-> <<>>, calls |-> <<>>]
    ELSE LET repo == Head(repos)
             listed == <<repo.name, "">> \notin fails
             list == Call("listLabelsForRepo", "Labels", repo.name, listed)
         IN IF ~listed
            THEN LET rest == applyLabelsToRepos(r, labels, Tail(repos), fails)
                 IN [remote |-> rest.remote,
                     successful |-> rest.successful,
                     failed |-> <<[repo |-> repo.name, label |-> ""]>> \o rest.failed,
                     calls |-> <<list>> \o rest.calls]
            ELSE LET existingLabelNames == r.repos[RepoIndex(r, repo.name)].labels
                     done == applyLabels(r, repo.name, existingLabelNames, labels, fails)
                     rest == applyLabelsToRepos(done.remote, labels, Tail(repos), fails)
                 IN [remote |-> rest.remote,
                     successful |-> <<repo.name>> \o rest.successful,
                     failed |-> done.failed \o rest.failed,
                     calls |-> <<list>> \o done.calls \o rest.calls]

(***************************************************************************)
(* The commands' handling of one change or one declared resource: the      *)
(* prompt, the calls, and what is pushed to results.                       *)
(***************************************************************************)
\* an entry of results.successful / skipped / failed
Entry(cat, key, note, error) == [cat |-> cat, key |-> key, note |-> note, error |-> error]

\* the effect of handling one item.  thrown: an error left the handling and
\* reached the command's outer catch
Step(r, events, successful, skipped, failed) ==
    [remote |-> r, events |-> events, successful |-> successful, skipped |-> skipped,
     failed |-> failed, thrown |-> FALSE]

NoStep(r) == Step(r, <<>>, <<>>, <<>>, <<>>)

\* a handling of a variable change that writes whatever the answer is
applyVariableChangeUnasked(r, change, confirmed, outcome) ==
    LET prompt == Prompt("Variable", change.key, confirmed)
        res == setActionVariable(r, change.key, change.newValue, outcome)
        entry(error) == <<Entry("Variable", change.key, "", error)>>
    IN IF res.ok THEN Step(res.remote, <<prompt>> \o res.calls, entry(NoError), <<>>, <<>>)
       ELSE Step(res.remote, <<prompt>> \o res.calls, <<>>, <<>>, entry(ApiError))

\* confirmChange for a variable, then setActionVariable
\* a handling of a variable change that issues a failed write once more
applyVariableChangeRetrying(r, change, confirmed, outcome) ==
    LET prompt == Prompt("Variable", change.key, confirmed)
        res == setActionVariable(r, change.key, change.newValue, outcome)
        entry(error) == <<Entry("Variable", change.key, "", error)>>
    IN IF ~confirmed THEN Step(r, <<prompt>>, <<>>, entry(NoError), <<>>)
       ELSE IF res.ok THEN Step(res.remote, <<prompt>> \o res.calls, entry(NoError), <<>>, <<>>)
       ELSE Step(res.remote, <<prompt>> \o res.calls \o res.calls, <<>>, <<>>,
                 entry(ApiError))

applyVariableChange(r, change, confirmed, outcome) ==
    LET prompt == Prompt("Variable", change.key, confirmed)
        res == setActionVariable(r, change.key, change.newValue, outcome)
        entry(error) == <<Entry("Variable", change.key, "", error)>>
    IN IF ~confirmed THEN Step(r, <<prompt>>, <<>>, entry(NoError), <<>>)
       ELSE IF res.ok THEN Step(res.remote, <<prompt>> \o res.calls, entry(NoError), <<>>, <<>>)
       ELSE Step(res.remote, <<prompt>> \o res.calls, <<>>, <<>>, entry(ApiError))

\* configure-org, body of the loop over varChanges
configureVariable(r, change, confirmed, outcome) ==
    IF isEqual(change.currentValue, change.newValue) THEN NoStep(r)
    ELSE applyVariableChange(r, change, confirmed, outcome)

\* a handling of a secret change that treats a removal as any other change
configureSecretRemoving(r, change, confirmed, outcome) ==
    LET prompt == Prompt("Secret", change.key, confirmed)
        res == setActionSecret(r, change.key, change.newValue, outcome)
        entry(note, error) == <<Entry("Secret", change.key, note, error)>>
    IN IF change.type = "update" /\ isEqual(change.currentValue, change.newValue)
       THEN NoStep(r)
       ELSE IF ~confirmed THEN Step(r, <<prompt>>, <<>>, entry("", NoError), <<>>)
       ELSE IF res.ok
            THEN Step(res.remote, <<prompt>> \o res.calls, entry("", NoError), <<>>, <<>>)
       ELSE Step(res.remote, <<prompt>> \o res.calls, <<>>, <<>>, entry("", ApiError))

\* configure-org, body of the loop over secretChanges
configureSecret(r, change, confirmed, outcome) ==
    LET prompt == Prompt("Secret", change.key, confirmed)
        res == setActionSecret(r, change.key, change.newValue, outcome)
        entry(note, error) == <<Entry("Secret", change.key, note, error)>>
    IN IF change.type = "update" /\ isEqual(change.currentValue, change.newValue)
       THEN NoStep(r)
       ELSE IF ~confirmed THEN Step(r, <<prompt>>, <<>>, entry("", NoError), <<>>)
       ELSE IF change.type = "remove"
            THEN Step(r, <<prompt>>, <<>>, entry("removal not automated", NoError), <<>>)
       ELSE IF res.ok
            THEN Step(res.remote, <<prompt>> \o res.calls, entry("", NoError), <<>>, <<>>)
       ELSE Step(res.remote, <<prompt>> \o res.calls, <<>>, <<>>, entry("", ApiError))

\* confirmChange for a privilege, then updateMemberPrivileges
applyPrivilegeChange(r, change, confirmed, outcome) ==
    LET prompt == Prompt("Privilege", change.key, confirmed)
        res == updateMemberPrivileges(r, change.key, change.newValue, outcome)
        entry(error) == <<Entry("Privilege", change.key, "", error)>>
    IN IF ~confirmed THEN Step(r, <<prompt>>, <<>>, entry(NoError), <<>>)
       ELSE IF res.ok THEN Step(res.remote, <<prompt>> \o res.calls, entry(NoError), <<>>, <<>>)
       ELSE Step(res.remote, <<prompt>> \o res.calls, <<>>, <<>>, entry(ApiError))

\* configure-org, body of the loop over privChanges
configurePrivilege(r, change, confirmed, outcome) ==
    IF isEqual(change.currentValue, change.newValue) THEN NoStep(r)
    ELSE applyPrivilegeChange(r, change, confirmed, outcome)

\* currentRulesets.find(r => r.name === name): its position, 0 if none
\* the first ruleset taken for the existing one whenever one has the name
RulesetIndexFirst(rulesets, name) ==
    IF \E i \in 1..Len(rulesets) : rulesets[i].name = name THEN 1 ELSE 0

RulesetIndex(rulesets, name) ==
    IF \E i \in 1..Len(rulesets) : rulesets[i].name = name
    THEN CHOOSE i \in 1..Len(rulesets) :
            /\ rulesets[i].name = name
            /\ \A j \in 1..(i - 1) : rulesets[j].name # name
    ELSE 0

\* configure-org, body of the loop over desiredRulesets
configureRuleset(r, currentRulesets, desiredRuleset, confirmed, outcome) ==
    LET i == RulesetIndex(currentRulesets, desiredRuleset.name)
        prompt == Prompt("Ruleset", desiredRuleset.name, confirmed)
        res == IF i # 0
               THEN updateBranchRuleset(r, currentRulesets[i].id, desiredRuleset, outcome)
               ELSE createBranchRuleset(r, desiredRuleset, outcome)
        entry(error) == <<Entry("Ruleset", desiredRuleset.name, "", error)>>
    IN IF ~confirmed THEN Step(r, <<prompt>>, <<>>, entry(NoError), <<>>)
       ELSE IF res.ok THEN Step(res.remote, <<prompt>> \o res.calls, entry(NoError), <<>>, <<>>)
       ELSE Step(res.remote, <<prompt>> \o res.calls, <<>>, <<>>, entry(res.error))

RECURSIVE addMembersUntilFailure(_, _, _, _, _)
\* a loop over desiredTeam.members that ends at the first member that
\* cannot be added
addMembersUntilFailure(r, teamName, slug, members, memberFails) ==
    IF members = <<>> THEN [remote |-> r, failed |-> <<>>, calls |-> <<>>]
    ELSE LET member == Head(members)
             res == addTeamMember(r, slug, member.username, member.role,
                                  IF member.username \in memberFails THEN "fail" ELSE "ok")
             rest == addMembersUntilFailure(res.remote, teamName, slug, Tail(members),
                                            memberFails)
         IN IF res.ok
            THEN [remote |-> rest.remote, failed |-> rest.failed,
                  calls |-> res.calls \o rest.calls]
            ELSE [remote |-> res.remote,
                  failed |-> <<Entry("Team", teamName, member.username, ApiError)>>,
                  calls |-> res.calls]

RECURSIVE addMembers(_, _, _, _, _)
\* the loop over desiredTeam.members: a member that cannot be added is
\* pushed to failed and the loop goes on
addMembers(r, teamName, slug, members, memberFails) ==
    IF members = <<>> THEN [remote |-> r, failed |-> <<>>, calls |-> <<>>]
    ELSE LET member == Head(members)
             res == addTeamMember(r, slug, member.username, member.role,
                                  IF member.username \in memberFails THEN "fail" ELSE "ok")
             rest == addMembers(res.remote, teamName, slug, Tail(members), memberFails)
         IN [remote |-> rest.remote,
             failed |-> (IF res.ok THEN <<>>
                         ELSE <<Entry("Team", teamName, member.username, ApiError)>>)
                            \o rest.failed,
             calls |-> res.calls \o rest.calls]

\* configure-org, body of the loop over desiredTeams
configureTeam(r, currentTeams, desiredTeam, confirmed, outcome, memberFails) ==
    LET i == TeamIndex(currentTeams, Slugify(desiredTeam.name))
        prompt == Prompt("Team", desiredTeam.name, confirmed)
        res == IF i # 0
               THEN updateTeam(r, currentTeams[i].slug, desiredTeam, outcome)
               ELSE createTeam(r, desiredTeam, outcome)
        mem == addMembers(res.remote, desiredTeam.name, res.slug, desiredTeam.members,
                          memberFails)
        entry(error) == <<Entry("Team", desiredTeam.name, "", error)>>
    IN IF ~confirmed THEN Step(r, <<prompt>>, <<>>, entry(NoError), <<>>)
       ELSE IF res.ok
            THEN Step(mem.remote, <<prompt>> \o res.calls \o mem.calls,
                      entry(NoError), <<>>, mem.failed)
       ELSE Step(res.remote, <<prompt>> \o res.calls, <<>>, <<>>, entry(ApiError))

\* configure-org, the labels section when labels are configured
configureLabels(r, labelsConfig, listOutcome, confirmed, fails) ==
    LET found == getRepositories(r, labelsConfig.apply_to_repos, listOutcome)
        prompt == Prompt("Labels", "Apply to existing repos", confirmed)
        res == applyLabelsToRepos(r, labelsConfig.labels, found.repos, fails)
        repoEntry(name) == Entry("Labels", name, "", NoError)
        failEntry(f) == Entry("Labels", f.repo, f.label, ApiError)
    IN IF ~found.ok THEN [NoStep(r) EXCEPT !.events = found.calls, !.thrown = TRUE]
       ELSE IF found.repos = <<>> THEN Step(r, found.calls, <<>>, <<>>, <<>>)
       ELSE IF ~confirmed
            THEN Step(r, found.calls \o <<prompt>>, <<>>,
                      <<Entry("Labels", "Apply to existing repos", "", NoError)>>, <<>>)
       ELSE Step(res.remote, found.calls \o <<prompt>> \o res.calls,
                 [n \in 1..Len(res.successful) |-> repoEntry(res.successful[n])],
                 <<>>,
                 [n \in 1..Len(res.failed) |-> failEntry(res.failed[n])])

(***************************************************************************)
(* configure-org.                                                          *)
(***************************************************************************)
EmptyResults == [successful |-> <<>>, failed |-> <<>>, skipped |-> <<>>]
NoCur == [variables |-> EmptyMap, secretNames |-> <<>>, privileges |-> EmptyMap,
          rulesets |-> <<>>, teams |-> <<>>]
NoGoal == [actionVariables |-> EmptyMap, actionSecrets |-> EmptyMap,
           memberPrivileges |-> EmptyMap, branchRulesets |-> <<>>, teams |-> <<>>,
           labels |-> [labels |-> <<>>, apply_to_repos |-> <<>>]]

\* an order of the sections with the teams before the rulesets
ConfigureOrderTeamsFirst ==
    <<"variables", "secrets", "privileges", "teams", "rulesets", "labels">>

\* the order of the sections of configure-org
ConfigureOrder == <<"variables", "secrets", "privileges", "rulesets", "teams", "labels">>

\* the section after section c, "summary" after the last
\* the section after section c when the last is followed by the first again
FollowingAround(order, c) ==
    LET i == CHOOSE n \in 1..Len(order) : order[n] = c
    IN IF i = Len(order) THEN order[1] ELSE order[i + 1]

Following(order, c) ==
    LET i == CHOOSE n \in 1..Len(order) : order[n] = c
    IN IF i = Len(order) THEN "summary" ELSE order[i + 1]

\* results with the entries of a step pushed
Pushed(res, step) ==
    [successful |-> res.successful \o step.successful,
     failed |-> res.failed \o step.failed,
     skipped |-> res.skipped \o step.skipped]

\* currentSecrets: every remote secret name with the value '***'
MaskedSecrets(names) ==
    [k \in {names[i] : i \in 1..Len(names)} |-> Str(Raw("***"))]

\* the changes, or declared resources, a section of configure-org loops over
ConfigureWork(c, current, wanted) ==
    CASE c = "variables" -> compare(current.variables, wanted.actionVariables)
      [] c = "secrets" -> compare(MaskedSecrets(current.secretNames), wanted.actionSecrets)
      [] c = "privileges" -> compare(current.privileges, wanted.memberPrivileges)
      [] c = "rulesets" -> wanted.branchRulesets
      [] c = "teams" -> wanted.teams
      [] c = "labels" -> IF wanted.labels.labels = <<>> THEN <<>> ELSE <<wanted.labels>>

\* the five reads at the start of configure-org
ReadCurrent(r) ==
    [variables |-> getActionVariables(r),
     secretNames |-> getActionSecretNames(r),
     privileges |-> getMemberPrivileges(r),
     rulesets |-> r.rulesets,
     teams |-> r.teams]

ReadCalls(ops) == [i \in 1..Len(ops) |-> Call(ops[i], "", "", TRUE)]

\* backupData as createBackup writes it: JSON of the current settings,
\* secrets by name only
Snapshot(current) ==
    [settings |->
        [actionVariables |-> JsonRoundTrip(current.variables),
         actionSecrets |-> current.secretNames,
         memberPrivileges |-> JsonRoundTrip(current.privileges),
         branchRulesets |-> current.rulesets,
         teams |-> current.teams]]

\* the declarations as configure-org loads them from org-settings/
Declarations(f) ==
    [actionVariables |-> f.variables, actionSecrets |-> f.secrets,
     memberPrivileges |-> f.privileges, branchRulesets |-> f.rulesets,
     teams |-> f.teams, labels |-> f.labels]

\* step 1: the credentials are loaded and the current settings are read;
\* missing credentials, or a read that fails, end the run
CfgReadCurrent ==
    /\ cmd = "configure-org" /\ pc = "start"
    /\ \E outcome \in Outcomes :
          IF files.broken = "credentials"
          THEN cur' = cur /\ pc' = "aborted" /\ log' = log
          ELSE IF outcome = "ok"
          THEN /\ cur' = ReadCurrent(remote)
               /\ pc' = "backup"
               /\ log' = log \o ReadCalls(<<"listOrgVariables", "listOrgSecrets", "orgs.get",
                                            "getOrgRulesets", "teams.list">>)
          ELSE /\ cur' = cur
               /\ pc' = "aborted"
               /\ log' = log \o <<Call("listOrgVariables", "", "", FALSE)>>
    /\ UNCHANGED <<pureVars, remote, files, backups, cmd, goal, work, results, run>>

\* a step 1 that goes on to the declarations when the snapshot cannot be
\* written
CfgCreateBackupOptional ==
    /\ cmd = "configure-org" /\ pc = "backup"
    /\ \E outcome \in Outcomes :
          IF outcome = "ok"
          THEN backups' = Append(backups, Snapshot(cur)) /\ pc' = "load"
          ELSE backups' = backups /\ pc' = "load"
    /\ UNCHANGED <<pureVars, remote, files, cmd, cur, goal, work, results, log, run>>

\* step 1, continued: the snapshot is written
CfgCreateBackup ==
    /\ cmd = "configure-org" /\ pc = "backup"
    /\ \E outcome \in Outcomes :
          IF outcome = "ok"
          THEN backups' = Append(backups, Snapshot(cur)) /\ pc' = "load"
          ELSE backups' = backups /\ pc' = "aborted"
    /\ UNCHANGED <<pureVars, remote, files, cmd, cur, goal, work, results, log, run>>

\* step 2: the declarations are loaded; a file that cannot be parsed ends
\* the run
CfgLoadDesired ==
    /\ cmd = "configure-org" /\ pc = "load"
    /\ IF files.broken = "none"
       THEN /\ goal' = Declarations(files)
            /\ pc' = "variables"
            /\ work' = ConfigureWork("variables", cur, Declarations(files))
       ELSE /\ pc' = "aborted"
            /\ UNCHANGED <<goal, work>>
    /\ results' = EmptyResults
    /\ UNCHANGED <<pureVars, remote, files, backups, cmd, cur, log, run>>

\* a section's loop is over: the next section starts
CfgAdvance ==
    /\ cmd = "configure-org" /\ pc \in {ConfigureOrder[i] : i \in 1..Len(ConfigureOrder)}
    /\ work = <<>>
    /\ pc' = Following(ConfigureOrder, pc)
    /\ work' = IF pc' = "summary" THEN <<>> ELSE ConfigureWork(pc', cur, goal)
    /\ UNCHANGED <<pureVars, remote, files, backups, cmd, cur, goal, results, log, run>>

\* the state after one item of a section was handled
Handled(step) ==
    /\ remote' = step.remote
    /\ log' = log \o step.events
    /\ results' = Pushed(results, step)
    /\ IF step.thrown
       THEN pc' = "aborted" /\ work' = <<>>
       ELSE pc' = pc /\ work' = Tail(work)
    /\ UNCHANGED <<pureVars, files, backups, cmd, cur, goal, run>>

CfgVariable ==
    /\ cmd = "configure-org" /\ pc = "variables" /\ work # <<>>
    /\ \E confirmed \in BOOLEAN, outcome \in Outcomes :
          Handled(configureVariable(remote, Head(work), confirmed, outcome))

CfgSecret ==
    /\ cmd = "configure-org" /\ pc = "secrets" /\ work # <<>>
    /\ \E confirmed \in BOOLEAN, outcome \in Outcomes :
          Handled(configureSecret(remote, Head(work), confirmed, outcome))

CfgPrivilege ==
    /\ cmd = "configure-org" /\ pc = "privileges" /\ work # <<>>
    /\ \E confirmed \in BOOLEAN, outcome \in Outcomes :
          Handled(configurePrivilege(remote, Head(work), confirmed, outcome))

CfgRuleset ==
    /\ cmd = "configure-org" /\ pc = "rulesets" /\ work # <<>>
    /\ \E confirmed \in BOOLEAN, outcome \in Outcomes :
          Handled(configureRuleset(remote, cur.rulesets, Head(work), confirmed, outcome))

\* the usernames of a declared team
MemberNames(team) == {team.members[i].username : i \in 1..Len(team.members)}

CfgTeam ==
    /\ cmd = "configure-org" /\ pc = "teams" /\ work # <<>>
    /\ \E confirmed \in BOOLEAN, outcome \in Outcomes,
          memberFails \in SUBSET MemberNames(Head(work)) :
          Handled(configureTeam(remote, cur.teams, Head(work), confirmed, outcome,
                                memberFails))

\* the calls of the labels section that may fail
LabelFailPoints(r, labelsConfig) ==
    {<<r.repos[i].name, "">> : i \in 1..Len(r.repos)} \cup
    {<<r.repos[i].name, labelsConfig.labels[j].name>> :
        i \in 1..Len(r.repos), j \in 1..Len(labelsConfig.labels)}

CfgLabels ==
    /\ cmd = "configure-org" /\ pc = "labels" /\ work # <<>>
    /\ \E confirmed \in BOOLEAN, listOutcome \in Outcomes,
          fails \in SUBSET LabelFailPoints(remote, Head(work)) :
          Handled(configureLabels(remote, Head(work), listOutcome, confirmed, fails))

\* the final summary is printed
CfgSummary ==
    /\ cmd = "configure-org" /\ pc = "summary"
    /\ pc' = "done"
    /\ UNCHANGED <<pureVars, remote, files, backups, cmd, cur, goal, work, results, log, run>>

(***************************************************************************)
(* restore-org.                                                            *)
(***************************************************************************)
RestoreOrder == <<"variables", "secrets", "privileges">>

\* a value that counts as true in a condition
Truthy(v) == v # Undef /\ v # Null /\ v # Str(Raw(""))

\* the section's compare throws: the snapshot lacks the section's settings
RestoreThrows(c, wanted) ==
    \/ c = "variables" /\ "actionVariables" \notin DOMAIN wanted
    \/ c = "privileges" /\ "memberPrivileges" \notin DOMAIN wanted

\* the changes, or secret names, a section of restore-org loops over.  The
\* secrets section is left at once when action-secrets.env cannot be loaded
\* or the snapshot lists no secrets to loop over
RestoreWork(c, current, wanted, f) ==
    CASE RestoreThrows(c, wanted) -> <<>>
      [] c = "variables" -> compare(current.variables, wanted.actionVariables)
      [] c = "secrets" -> IF f.broken = "env" \/ "actionSecrets" \notin DOMAIN wanted
                          THEN <<>>
                          ELSE wanted.actionSecrets
      [] c = "privileges" -> compare(current.privileges, wanted.memberPrivileges)

\* restore-org, body of the loop over backupSecretNames
restoreSecret(r, currentSecretsFile, secretName, confirmed, outcome) ==
    LET value == Get(currentSecretsFile, secretName)
        prompt == Prompt("Secret", secretName, confirmed)
        res == setActionSecret(r, secretName, value, outcome)
        entry(note, error) == <<Entry("Secret", secretName, note, error)>>
    IN IF ~Truthy(value) THEN Step(r, <<>>, <<>>, entry("not in env file", NoError), <<>>)
       ELSE IF ~confirmed THEN Step(r, <<prompt>>, <<>>, entry("", NoError), <<>>)
       ELSE IF res.ok
            THEN Step(res.remote, <<prompt>> \o res.calls, entry("", NoError), <<>>, <<>>)
       ELSE Step(res.remote, <<prompt>> \o res.calls, <<>>, <<>>, entry("", ApiError))

\* the credentials are loaded and the snapshot file named on the command
\* line is read; missing credentials, or a file that does not exist or does
\* not parse, end the run
RstReadBackup ==
    /\ cmd = "restore-org" /\ pc = "start"
    /\ \E locator \in 1..(Len(backups) + 1) :
          IF files.broken = "credentials" \/ locator > Len(backups)
          THEN goal' = goal /\ pc' = "aborted"
          ELSE IF "unparsable" \in DOMAIN backups[locator]
          THEN goal' = goal /\ pc' = "aborted"
          ELSE /\ goal' = IF "settings" \in DOMAIN backups[locator]
                          THEN backups[locator].settings
                          ELSE EmptyMap
               /\ pc' = "fetch"
    /\ UNCHANGED <<pureVars, remote, files, backups, cmd, cur, work, results, log, run>>

\* the four reads of restore-org
RstReadCurrent ==
    /\ cmd = "restore-org" /\ pc = "fetch"
    /\ \E outcome \in Outcomes :
          IF outcome = "ok"
          THEN /\ cur' = [ReadCurrent(remote) EXCEPT !.teams = <<>>]
               /\ pc' = IF RestoreThrows("variables", goal) THEN "aborted" ELSE "variables"
               /\ work' = RestoreWork("variables", cur', goal, files)
               /\ log' = log \o ReadCalls(<<"listOrgVariables", "listOrgSecrets", "orgs.get",
                                            "getOrgRulesets">>)
          ELSE /\ cur' = cur
               /\ pc' = "aborted"
               /\ work' = work
               /\ log' = log \o <<Call("listOrgVariables", "", "", FALSE)>>
    /\ results' = EmptyResults
    /\ UNCHANGED <<pureVars, remote, files, backups, cmd, goal, run>>

RstAdvance ==
    /\ cmd = "restore-org" /\ pc \in {RestoreOrder[i] : i \in 1..Len(RestoreOrder)}
    /\ work = <<>>
    /\ pc' = IF RestoreThrows(Following(RestoreOrder, pc), goal)
             THEN "aborted"
             ELSE Following(RestoreOrder, pc)
    /\ work' = IF pc' \in {"summary", "aborted"} THEN <<>>
               ELSE RestoreWork(pc', cur, goal, files)
    /\ UNCHANGED <<pureVars, remote, files, backups, cmd, cur, goal, results, log, run>>

RstVariable ==
    /\ cmd = "restore-org" /\ pc = "variables" /\ work # <<>>
    /\ \E confirmed \in BOOLEAN, outcome \in Outcomes :
          Handled(applyVariableChange(remote, Head(work), confirmed, outcome))

RstSecret ==
    /\ cmd = "restore-org" /\ pc = "secrets" /\ work # <<>>
    /\ \E confirmed \in BOOLEAN, outcome \in Outcomes :
          Handled(restoreSecret(remote, files.secrets, Head(work), confirmed, outcome))

RstPrivilege ==
    /\ cmd = "restore-org" /\ pc = "privileges" /\ work # <<>>
    /\ \E confirmed \in BOOLEAN, outcome \in Outcomes :
          Handled(applyPrivilegeChange(remote, Head(work), confirmed, outcome))

RstSummary ==
    /\ cmd = "restore-org" /\ pc = "summary"
    /\ pc' = "done"
    /\ UNCHANGED <<pureVars, remote, files, backups, cmd, cur, goal, work, results, log, run>>

(***************************************************************************)
(* Runs of the commands.                                                   *)
(***************************************************************************)
MaxRuns == 2

NoRemote == [variables |-> EmptyMap, secrets |-> EmptyMap, org |-> EmptyMap,
             rulesets |-> <<>>, teams |-> <<>>, repos |-> <<>>]
NoFiles == [variables |-> EmptyMap, secrets |-> EmptyMap, privileges |-> EmptyMap,
            rulesets |-> <<>>, teams |-> <<>>,
            labels |-> [labels |-> <<>>, apply_to_repos |-> <<>>], broken |-> "none"]

\* the mapping with the one key k
Only(k, v) == [x \in {k} |-> v]

\* no command is running
RunIdle ==
    /\ remote = NoRemote /\ files = NoFiles /\ backups = <<>>
    /\ cmd = "none" /\ pc = "idle" /\ cur = NoCur /\ goal = NoGoal
    /\ work = <<>> /\ results = EmptyResults /\ log = <<>> /\ run = 0

\* a command at its start
AtStart(command) ==
    /\ cmd = command /\ pc = "start" /\ cur = NoCur /\ goal = NoGoal
    /\ work = <<>> /\ results = EmptyResults /\ log = <<>> /\ run = 1

\* remote variables / declared variables: an add, an update, a remove
VariableCases ==
    {<<EmptyMap, Only("A", Num(1))>>,
     <<Only("A", Raw("x")), Only("A", Num(1))>>,
     <<Only("A", Raw("x")), EmptyMap>>}

\* remote secrets / declared secrets: an add, a remove
SecretCases ==
    {<<EmptyMap, Only("S", Str(Raw("pw")))>>,
     <<Only("S", Str(Raw("old"))), EmptyMap>>}

\* organisation fields / declared privileges: an update, an add
PrivilegeCases ==
    {<<Only("members_can_create_teams", Bool(TRUE)),
       Only("members_can_create_teams", Bool(FALSE))>>,
     <<EmptyMap, Only("members_can_create_teams", Bool(FALSE))>>}

StaffTeam == [id |-> 7, slug |-> "staff", name |-> "Staff", members |-> EmptyMap]
DeclaredStaff == [name |-> "Staff", members |-> <<[username |-> "u1", role |-> "member"]>>]
ProtectRuleset == [id |-> 3, name |-> "protect", bypass_actors |-> <<>>]
DeclaredProtect ==
    [name |-> "protect", bypass_actors |-> <<[actor_type |-> "Team", team |-> "staff"]>>]

\* remote teams / declared teams / remote rulesets / declared rulesets:
\* nothing declared; a team and a ruleset created, the ruleset naming the
\* team that does not exist yet; both updated; a ruleset created that names
\* an existing team
ResourceCases ==
    {<< <<>>, <<>>, <<>>, <<>> >>,
     << <<>>, <<DeclaredStaff>>, <<>>, <<DeclaredProtect>> >>,
     << <<StaffTeam>>, <<DeclaredStaff>>, <<ProtectRuleset>>, <<DeclaredProtect>> >>,
     << <<StaffTeam>>, <<>>, <<>>, <<DeclaredProtect>> >>}

Repos == <<[name |-> "algo-1", labels |-> {}], [name |-> "template", labels |-> {"bug"}]>>
LabelCases ==
    {[labels |-> <<>>, apply_to_repos |-> <<>>],
     [labels |-> <<[name |-> "bug"]>>, apply_to_repos |-> <<"algo-.*">>],
     [labels |-> <<[name |-> "bug"]>>, apply_to_repos |-> <<"template">>],
     [labels |-> <<[name |-> "bug"]>>, apply_to_repos |-> <<"none">>]}

\* configure-org is started against some organisation with some declarations
InitConfigure ==
    /\ AtStart("configure-org")
    /\ backups = <<>>
    /\ \E v \in VariableCases, s \in SecretCases, p \in PrivilegeCases,
          t \in ResourceCases, l \in LabelCases, b \in {"none", "json", "env"} :
          /\ remote = [variables |-> v[1], secrets |-> s[1], org |-> p[1],
                       rulesets |-> t[3], teams |-> t[1], repos |-> Repos]
          /\ files = [variables |-> v[2], secrets |-> s[2], privileges |-> p[2],
                      rulesets |-> t[4], teams |-> t[2], labels |-> l, broken |-> b]

\* organisations a snapshot was taken of
EarlierRemotes ==
    {[NoRemote EXCEPT !.variables = v, !.secrets = s, !.org = o] :
        v \in {EmptyMap, Only("A", Json(Num(1)))},
        s \in {EmptyMap, Only("S", Str(Raw("old")))},
        o \in {EmptyMap, Only("members_can_create_teams", Bool(TRUE))}}

\* restore-org is started with a snapshot an earlier configure-org wrote
InitRestore ==
    /\ AtStart("restore-org")
    /\ \E r0 \in EarlierRemotes,
          v \in {EmptyMap, Only("A", Raw("x"))},
          o \in {EmptyMap, Only("members_can_create_teams", Bool(FALSE))},
          sf \in {EmptyMap, Only("S", Str(Raw("pw"))), Only("S", Str(Raw("")))},
          b \in {"none", "env"} :
          /\ backups = <<Snapshot(ReadCurrent(r0))>>
          /\ remote = [NoRemote EXCEPT !.variables = v, !.org = o]
          /\ files = [NoFiles EXCEPT !.secrets = sf, !.broken = b]

(***************************************************************************)
(* Bounded sets of values.                                                 *)
(***************************************************************************)
\* scalars a JSON document can hold
JsonScalars == {Null, Str(Raw("x"))} \cup {Num(n) : n \in 1..MaxNum}

\* names of properties inside composite values; "0" is also the name of
\* the first index of an array
PropNames == {"0", "a"}

ArraysOver(S) == UNION {[1..n -> S] : n \in 0..MaxLen}
ObjectsOver(S) == UNION {[K -> S] : K \in SUBSET PropNames}

Composites(S) == {Arr(s) : s \in ArraysOver(S)} \cup {Obj(m) : m \in ObjectsOver(S)}

\* one composite wrapped once more, as an array element or a property
Wrapped(S) ==
    {Arr(<<c>>) : c \in S} \cup {Obj([k \in {p} |-> c]) : p \in PropNames, c \in S}

Flat == Composites(JsonScalars)
Values == {Undef} \cup JsonScalars \cup Flat \cup Wrapped(Flat)

(***************************************************************************)
(* Specification of isEqual as a pure function.                            *)
(***************************************************************************)
\* no result of an operation of BackupManager
NoOut == [op |-> "none", arg |-> <<>>, error |-> "", value |-> EmptyMap, names |-> <<>>]
\* no backup directory
NoStore == [exists |-> FALSE, dir |-> EmptyMap, now |-> [s |-> 0, ms |-> 0],
            captures |-> <<>>, out |-> NoOut]
NoCall == [fn |-> "none"]
UtilIdle == store = NoStore /\ utilCall = NoCall

NoEqCall == [a |-> Undef, b |-> Undef, done |-> FALSE, result |-> FALSE]
NoDiffCall == [current |-> EmptyMap, desired |-> EmptyMap, done |-> FALSE, changes |-> <<>>]
NoRsResult == [ok |-> FALSE, error |-> NoError, remote |-> NoRemote, calls |-> <<>>]
NoRsCall == [op |-> "none", r |-> NoRemote,
             ruleset |-> [name |-> "", bypass_actors |-> <<>>],
             done |-> FALSE, res |-> NoRsResult]

InitEqual ==
    /\ eqCall \in {[a |-> x, b |-> y, done |-> FALSE, result |-> FALSE] :
                      x \in Values, y \in Values}
    /\ diffCall = NoDiffCall /\ rsCall = NoRsCall /\ UtilIdle
    /\ RunIdle

IsEqualCall ==
    /\ ~eqCall.done
    /\ eqCall' = [eqCall EXCEPT !.done = TRUE, !.result = isEqual(eqCall.a, eqCall.b)]
    /\ UNCHANGED <<diffCall, rsCall, utilVars, runVars>>

NextEqual == IsEqualCall

SpecEqual == InitEqual /\ [][NextEqual]_vars

(***************************************************************************)
(* Specification of compare as a pure function.                            *)
(***************************************************************************)
\* values of the settings compared: scalars, empty and one-element
\* composites, and composites nested once
DiffValues ==
    {Undef} \cup JsonScalars \cup
    { Arr(<<>>), Obj(EmptyMap),
      Arr(<<Num(1)>>), Obj([k \in {"0"} |-> Num(1)]), Obj([k \in {"a"} |-> Null]),
      Arr(<<Obj([k \in {"a"} |-> Num(1)])>>),
      Obj([k \in {"a"} |-> Arr(<<Num(1)>>)]),
      Obj([k \in {"a"} |-> Obj([k2 \in {"0"} |-> Num(1)])]) }

DiffKeys == {"A", "B"}
Settings == UNION {[K -> DiffValues] : K \in SUBSET DiffKeys}

InitDiff ==
    /\ diffCall \in {[current |-> c, desired |-> d, done |-> FALSE, changes |-> <<>>] :
                        c \in Settings, d \in Settings}
    /\ eqCall = NoEqCall /\ rsCall = NoRsCall /\ UtilIdle
    /\ RunIdle

CompareCall ==
    /\ ~diffCall.done
    /\ diffCall' = [diffCall EXCEPT !.done = TRUE,
                                    !.changes = compare(diffCall.current, diffCall.desired)]
    /\ UNCHANGED <<eqCall, rsCall, utilVars, runVars>>

NextDiff == CompareCall

SpecDiff == InitDiff /\ [][NextDiff]_vars

(***************************************************************************)
(* Specification of createBranchRuleset / updateBranchRuleset for one      *)
(* ruleset.                                                                *)
(***************************************************************************)
MaxActors == 2

\* bypass actors a declaration may list
ActorPool ==
    {[actor_type |-> "Team", team |-> "staff"],
     [actor_type |-> "Team", team |-> "ghost"],
     [actor_type |-> "Team", team |-> "phantom"],
     [actor_type |-> "OrganizationAdmin", actor_id |-> 1],
     [actor_type |-> "Team", team |-> "", actor_id |-> 7],
     [actor_type |-> "Integration", team |-> "staff", actor_id |-> 5]}

ActorLists == UNION {[1..n -> ActorPool] : n \in 0..MaxActors}

InitRuleset ==
    /\ rsCall \in {[op |-> o,
                    r |-> [NoRemote EXCEPT !.teams = t,
                              !.rulesets = IF o = "update" THEN <<ProtectRuleset>> ELSE <<>>],
                    ruleset |-> [name |-> "protect", bypass_actors |-> a],
                    done |-> FALSE, res |-> NoRsResult] :
                      o \in {"create", "update"}, t \in {<<>>, <<StaffTeam>>},
                      a \in ActorLists}
    /\ eqCall = NoEqCall /\ diffCall = NoDiffCall /\ UtilIdle
    /\ RunIdle

CreateRulesetCall ==
    /\ rsCall.op = "create" /\ ~rsCall.done
    /\ \E outcome \in Outcomes :
          rsCall' = [rsCall EXCEPT !.done = TRUE,
                        !.res = createBranchRuleset(rsCall.r, rsCall.ruleset, outcome)]
    /\ UNCHANGED <<eqCall, diffCall, utilVars, runVars>>

UpdateRulesetCall ==
    /\ rsCall.op = "update" /\ ~rsCall.done
    /\ \E outcome \in Outcomes :
          rsCall' = [rsCall EXCEPT !.done = TRUE,
                        !.res = updateBranchRuleset(rsCall.r, ProtectRuleset.id,
                                                    rsCall.ruleset, outcome)]
    /\ UNCHANGED <<eqCall, diffCall, utilVars, runVars>>

NextRuleset == CreateRulesetCall \/ UpdateRulesetCall

SpecRuleset == InitRuleset /\ [][NextRuleset]_vars

(***************************************************************************)
(* Specification of one run of configure-org or of restore-org.            *)
(***************************************************************************)
PureIdle == eqCall = NoEqCall /\ diffCall = NoDiffCall /\ rsCall = NoRsCall /\ UtilIdle

Init == PureIdle /\ (InitConfigure \/ InitRestore)

Next ==
    \/ CfgReadCurrent \/ CfgCreateBackup \/ CfgLoadDesired \/ CfgAdvance
    \/ CfgVariable \/ CfgSecret \/ CfgPrivilege \/ CfgRuleset \/ CfgTeam \/ CfgLabels
    \/ CfgSummary
    \/ RstReadBackup \/ RstReadCurrent \/ RstAdvance
    \/ RstVariable \/ RstSecret \/ RstPrivilege \/ RstSummary

Spec == Init /\ [][Next]_vars

(***************************************************************************)
(* Specification of configure-org run again with the same declarations,    *)
(* nothing else writing to the organisation in between.                    *)
(***************************************************************************)
\* the mark in the history where a run starts
RunStart == [ev |-> "run", op |-> "", cat |-> "", key |-> "", sub |-> "", ok |-> TRUE]

\* values a declaration of a variable may give
DeclaredValues ==
    {Num(1), Bool(TRUE), Null, Str(Raw("x")), Str(Json(Num(1))),
     Arr(<<Num(1)>>), Obj(Only("a", Num(1)))}

\* one category is declared: remote state / declarations
RerunCases ==
    {<<[NoRemote EXCEPT !.variables = rv], [NoFiles EXCEPT !.variables = dv]>> :
        rv \in {EmptyMap, Only("A", Raw("x")), Only("A", Json(Num(1)))},
        dv \in {EmptyMap} \cup {Only("A", v) : v \in DeclaredValues}}
    \cup
    {<<[NoRemote EXCEPT !.secrets = rs], [NoFiles EXCEPT !.secrets = ds]>> :
        rs \in {EmptyMap, Only("S", Str(Raw("old")))},
        ds \in {EmptyMap, Only("S", Str(Raw("pw"))), Only("S", Str(Raw("***")))}}
    \cup
    {<<[NoRemote EXCEPT !.org = ro], [NoFiles EXCEPT !.privileges = dp]>> :
        ro \in {EmptyMap, Only("members_can_create_teams", Bool(TRUE))},
        dp \in {EmptyMap, Only("members_can_create_teams", Bool(FALSE)),
                Only("members_can_create_teams", Bool(TRUE)),
                Only("default_repository_permission", Str(Raw("read")))}}

InitRerun ==
    /\ PureIdle
    /\ AtStart("configure-org")
    /\ backups = <<>>
    /\ \E c \in RerunCases : remote = c[1] /\ files = c[2]

\* the command ended; it is started again
Rerun ==
    /\ cmd = "configure-org" /\ pc = "done" /\ run < MaxRuns
    /\ run' = run + 1
    /\ pc' = "start"
    /\ cur' = NoCur /\ goal' = NoGoal /\ work' = <<>> /\ results' = EmptyResults
    /\ log' = Append(log, RunStart)
    /\ UNCHANGED <<pureVars, remote, files, backups, cmd>>

NextRerun ==
    \/ CfgReadCurrent \/ CfgCreateBackup \/ CfgLoadDesired \/ CfgAdvance
    \/ CfgVariable \/ CfgSecret \/ CfgPrivilege \/ CfgSummary
    \/ Rerun

SpecRerun == InitRerun /\ [][NextRerun]_vars

(***************************************************************************)
(* Specification of restore-org over snapshots and live variables of two   *)
(* keys, with scalar and composite values.                                 *)
(***************************************************************************)
\* texts a remote variable may hold
VariableTexts ==
    {Json(Num(1)), Json(Num(5)), Json(Arr(<<Num(1)>>)), Json(Obj(Only("0", Num(1))))}

\* remote variables over the keys A and B
VariableMaps ==
    {[k \in K |-> IF k = "A" THEN a ELSE Json(Num(2))] :
        K \in SUBSET {"A", "B"}, a \in VariableTexts}

InitRestoreDiff ==
    /\ PureIdle
    /\ AtStart("restore-org")
    /\ \E v0 \in VariableMaps, v \in VariableMaps,
          s0 \in {EmptyMap, Only("S", Str(Raw("old")))},
          o \in {EmptyMap, Only("members_can_create_teams", Bool(FALSE))} :
          /\ backups = <<Snapshot(ReadCurrent(
                            [NoRemote EXCEPT !.variables = v0, !.secrets = s0,
                                !.org = Only("members_can_create_teams", Bool(TRUE))]))>>
          /\ remote = [NoRemote EXCEPT !.variables = v, !.org = o]
          /\ files = [NoFiles EXCEPT !.secrets = Only("S", Str(Raw("pw")))]

NextRestoreDiff ==
    \/ RstReadBackup \/ RstReadCurrent \/ RstAdvance
    \/ RstVariable \/ RstSecret \/ RstPrivilege \/ RstSummary

SpecRestoreDiff == InitRestoreDiff /\ [][NextRestoreDiff]_vars

(***************************************************************************)
(* Specification of configure-org followed by restore-org with the         *)
(* snapshot the configure-org run wrote, nothing else writing to the       *)
(* organisation in between.                                                *)
(***************************************************************************)
\* configure-org ended; restore-org is started
Undo ==
    /\ cmd = "configure-org" /\ pc = "done"
    /\ cmd' = "restore-org"
    /\ pc' = "start"
    /\ run' = run + 1
    /\ cur' = NoCur /\ goal' = NoGoal /\ work' = <<>> /\ results' = EmptyResults
    /\ log' = Append(log, RunStart)
    /\ UNCHANGED <<pureVars, remote, files, backups>>

NextUndo ==
    \/ CfgReadCurrent \/ CfgCreateBackup \/ CfgLoadDesired \/ CfgAdvance
    \/ CfgVariable \/ CfgSecret \/ CfgPrivilege \/ CfgSummary
    \/ Undo
    \/ RstReadBackup \/ RstReadCurrent \/ RstAdvance
    \/ RstVariable \/ RstSecret \/ RstPrivilege \/ RstSummary

SpecUndo == InitRerun /\ [][NextUndo]_vars

(***************************************************************************)
(* Specification of configure-org over declarations of two teams with      *)
(* several members each.                                                   *)
(***************************************************************************)
MaxMembers == 2

UserNames == <<"u1", "u2", "u3", "u4">>

\* member lists of a declared team, the first of them named UserNames[from]
MemberLists(from) ==
    {[i \in 1..n |-> [username |-> UserNames[from + i - 1], role |-> "member"]] :
        n \in 0..MaxMembers}

TutorsTeam == [id |-> 8, slug |-> "tutors", name |-> "tutors", members |-> EmptyMap]

\* an organisation whose privileges are all as declared
SettledOrg ==
    [k \in PrivilegeKeys |->
        IF k = "members_can_create_teams" THEN Bool(TRUE) ELSE Str(Raw("read"))]

InitTeams ==
    /\ PureIdle
    /\ AtStart("configure-org")
    /\ backups = <<>>
    /\ \E rt \in {<<>>, <<StaffTeam>>, <<StaffTeam, TutorsTeam>>},
          m1 \in MemberLists(1), m2 \in MemberLists(2) :
          /\ remote = [NoRemote EXCEPT !.teams = rt, !.org = SettledOrg]
          /\ files = [NoFiles EXCEPT
                         !.privileges = SettledOrg,
                         !.teams = <<[name |-> "Staff", members |-> m1],
                                     [name |-> "tutors", members |-> m2]>>]

NextTeams ==
    \/ CfgReadCurrent \/ CfgCreateBackup \/ CfgLoadDesired \/ CfgAdvance
    \/ CfgTeam \/ CfgSummary

SpecTeams == InitTeams /\ [][NextTeams]_vars

(***************************************************************************)
(* Specification of configure-org over declarations of a label and a list  *)
(* of repository patterns.                                                 *)
(***************************************************************************)
MaxPatterns == 2

PatternLists == UNION {[1..n -> {"algo-.*", "template"}] : n \in 0..MaxPatterns}

ThreeRepos ==
    <<[name |-> "algo-1", labels |-> {}], [name |-> "algo-2", labels |-> {"bug"}],
      [name |-> "template", labels |-> {}]>>

InitLabels ==
    /\ PureIdle
    /\ AtStart("configure-org")
    /\ backups = <<>>
    /\ \E patterns \in PatternLists :
          /\ remote = [NoRemote EXCEPT !.repos = ThreeRepos, !.org = SettledOrg]
          /\ files = [NoFiles EXCEPT
                         !.privileges = SettledOrg,
                         !.labels = [labels |-> <<[name |-> "bug"]>>,
                                     apply_to_repos |-> patterns]]

NextLabels ==
    \/ CfgReadCurrent \/ CfgCreateBackup \/ CfgLoadDesired \/ CfgAdvance
    \/ CfgLabels \/ CfgSummary

SpecLabels == InitLabels /\ [][NextLabels]_vars

(***************************************************************************)
(* Specification of the commands started with missing credentials, with    *)
(* declarations that do not parse, or with a snapshot file that is corrupt *)
(* or lacks a part of its shape.                                           *)
(***************************************************************************)
\* the snapshot of an organisation with a variable, a secret and a privilege
FullSnapshot ==
    Snapshot(ReadCurrent([NoRemote EXCEPT
        !.variables = Only("A", Json(Num(1))),
        !.secrets = Only("S", Str(Raw("old"))),
        !.org = Only("members_can_create_teams", Bool(TRUE))]))

\* record rec without the fields in gone
Without(rec, gone) == [k \in DOMAIN rec \ gone |-> rec[k]]

\* snapshot files: the full one, one that is not JSON, one without
\* settings, and those whose settings lack one part
SnapshotFiles ==
    {FullSnapshot, [unparsable |-> TRUE], [timestamp |-> "t"]}
    \cup {[settings |-> Without(FullSnapshot.settings, {part})] :
            part \in {"actionVariables", "actionSecrets", "memberPrivileges"}}

InitPreApply ==
    /\ PureIdle
    /\ \/ /\ AtStart("configure-org")
          /\ backups = <<>>
          /\ remote = [NoRemote EXCEPT !.org = SettledOrg]
          /\ \E b \in {"none", "json", "env", "credentials"} :
                files = [NoFiles EXCEPT !.variables = Only("A", Num(1)),
                                        !.privileges = SettledOrg, !.broken = b]
       \/ /\ AtStart("restore-org")
          /\ \E snapshot \in SnapshotFiles, b \in {"none", "credentials"} :
                /\ backups = <<snapshot>>
                /\ files = [NoFiles EXCEPT !.secrets = Only("S", Str(Raw("pw"))),
                                           !.broken = b]
          /\ remote = [NoRemote EXCEPT
                          !.variables = Only("A", Raw("x")),
                          !.org = Only("members_can_create_teams", Bool(FALSE))]

NextPreApply ==
    \/ CfgReadCurrent \/ CfgCreateBackup \/ CfgLoadDesired \/ CfgAdvance
    \/ CfgVariable \/ CfgSummary
    \/ RstReadBackup \/ RstReadCurrent \/ RstAdvance
    \/ RstVariable \/ RstSecret \/ RstPrivilege \/ RstSummary

SpecPreApply == InitPreApply /\ [][NextPreApply]_vars

(***************************************************************************)
(* restore-org with a snapshot that captured rulesets and teams.           *)
(***************************************************************************)
\* organisations with or without a variable, a privilege, a ruleset, a team
FullRemotes(v, o) ==
    {[NoRemote EXCEPT !.variables = vs, !.org = os, !.rulesets = rs, !.teams = ts,
                      !.secrets = Only("S", Str(Raw("old")))] :
        vs \in {EmptyMap, Only("A", v)},
        os \in {EmptyMap, Only("members_can_create_teams", o)},
        rs \in {<<>>, <<ProtectRuleset>>},
        ts \in {<<>>, <<StaffTeam>>}}

\* restore-org is started with the snapshot of one organisation state
\* against another; action-secrets.env holds the secret
InitRestoreAll ==
    /\ PureIdle
    /\ AtStart("restore-org")
    /\ \E r0 \in FullRemotes(Json(Num(1)), Bool(TRUE)),
          r \in FullRemotes(Json(Num(5)), Bool(FALSE)) :
          /\ backups = <<Snapshot(ReadCurrent(r0))>>
          /\ remote = r
          /\ files = [NoFiles EXCEPT !.secrets = Only("S", Str(Raw("pw")))]

SpecRestoreAll == InitRestoreAll /\ [][NextRestoreDiff]_vars

(***************************************************************************)
(* BackupManager (src/utils/prompt.js).  A string is the sequence of its   *)
(* characters; a locator is the name of a file in the backup directory,    *)
(* the directory's path being the same in front of every one.              *)
(***************************************************************************)
\* at most MaxCaptures snapshots are captured
MaxCaptures == 2

\* the characters that occur, in the order of their code units
CodeOrder ==
    <<"-", ".", "0", "1", "2", "3", "4", "5", "6", "7", "8", "9", ":", "T", "Z", "_",
      "a", "b", "c", "d", "e", "j", "k", "l", "n", "o", "p", "s", "t", "u", "x">>

CodeOf(c) == CHOOSE i \in 1..Len(CodeOrder) : CodeOrder[i] = c

\* a < b by code units, the order Array.prototype.sort() puts strings in
Precedes(a, b) ==
    \E i \in 1..(Len(a) + 1) :
        /\ \A j \in 1..(i - 1) : j <= Len(b) /\ a[j] = b[j]
        /\ \/ i = Len(a) + 1 /\ Len(b) > Len(a)
           \/ i <= Len(a) /\ i <= Len(b) /\ CodeOf(a[i]) < CodeOf(b[i])

\* files.sort()
RECURSIVE Sort(_)
Sort(S) ==
    IF S = {} THEN <<>>
    ELSE LET least == CHOOSE x \in S : \A y \in S \ {x} : Precedes(x, y)
         IN <<least>> \o Sort(S \ {least})

\* array.reverse()
Reverse(seq) == [i \in 1..Len(seq) |-> seq[Len(seq) + 1 - i]]

Digit(d) == <<"0", "1", "2", "3", "4", "5", "6", "7", "8", "9">>[d + 1]

RECURSIVE Power10(_)
Power10(e) == IF e = 0 THEN 1 ELSE 10 * Power10(e - 1)

\* the decimal digits of n without leading zeros
Decimal(n, width) ==
    LET digits == [i \in 1..width |-> Digit((n \div Power10(width - i)) % 10)]
        lead == {i \in 1..width : digits[i] # "0" \/ i = width}
        first == CHOOSE i \in lead : \A j \in lead : i <= j
    IN SubSeq(digits, first, width)

\* the decimal digits of n on `width` places, zeros in front
PadStart(n, width) == [i \in 1..width |-> Digit((n \div Power10(width - i)) % 10)]

\* the instants a capture can happen at: two seconds of one minute, two
\* milliseconds of each
Instants == {[s |-> a, ms |-> b] : a \in {9, 10}, b \in {7, 40}}

Later(t, u) == t.s < u.s \/ (t.s = u.s /\ t.ms < u.ms)

\* new Date().toISOString() at the instant t: YYYY-MM-DDTHH:mm:ss.sssZ
toISOString(t) ==
    <<"2", "0", "2", "4", "-", "0", "1", "-", "1", "5", "T", "1", "0", ":", "3", "0", ":">>
    \o PadStart(t.s, 2) \o <<".">> \o PadStart(t.ms, 3) \o <<"Z">>

Occurrences(str, c) == {i \in 1..Len(str) : str[i] = c}
FirstOf(S) == CHOOSE i \in S : \A j \in S : i <= j

\* str.replace(/[from]/g, to)
ReplaceAll(str, from, to) == [i \in 1..Len(str) |-> IF str[i] \in from THEN to ELSE str[i]]

\* str.replace(from, to): the first occurrence only
ReplaceFirst(str, from, to) ==
    IF Occurrences(str, from) = {} THEN str
    ELSE [str EXCEPT ![FirstOf(Occurrences(str, from))] = to]

\* str.split(sep)[0]
SplitHead(str, sep) ==
    IF Occurrences(str, sep) = {} THEN str
    ELSE SubSeq(str, 1, FirstOf(Occurrences(str, sep)) - 1)

\* createBackup: const timestamp
timestamp(t) ==
    SplitHead(ReplaceFirst(ReplaceAll(toISOString(t), {":", "."}, "-"), "T", "_"), ".")

\* createBackup: const filename = `backup-${timestamp}.json`
filename(t) ==
    <<"b", "a", "c", "k", "u", "p", "-">> \o timestamp(t) \o <<".", "j", "s", "o", "n">>

startsWith(str, prefix) ==
    Len(prefix) <= Len(str) /\ SubSeq(str, 1, Len(prefix)) = prefix
endsWith(str, suffix) ==
    Len(suffix) <= Len(str)
    /\ SubSeq(str, Len(str) - Len(suffix) + 1, Len(str)) = suffix

\* backupData of configure-org, as handed to createBackup
BackupData(current) ==
    [actionVariables |-> current.variables,
     actionSecrets |-> current.secretNames,
     memberPrivileges |-> current.privileges,
     branchRulesets |-> current.rulesets,
     teams |-> current.teams]

\* createBackup(settings) at the instant st.now: the directory is made, the
\* file written over whatever has its name
createBackup(st, current) ==
    LET name == filename(st.now)
        backup == [timestamp |-> toISOString(st.now),
                   settings |-> Snapshot(current).settings]
    IN [st EXCEPT !.exists = TRUE,
                  !.dir = [f \in DOMAIN st.dir \cup {name} |->
                              IF f = name THEN backup ELSE st.dir[f]],
                  !.captures = Append(st.captures,
                                      [at |-> st.now, locator |-> name, settings |-> current]),
                  !.out = [NoOut EXCEPT !.op = "createBackup", !.names = <<name>>]]

\* readBackup(filepath): fs.readFile, then JSON.parse
readBackup(st, filepath) ==
    [st EXCEPT !.out =
        IF ~st.exists \/ filepath \notin DOMAIN st.dir
        THEN [NoOut EXCEPT !.op = "readBackup", !.arg = filepath, !.error = "ENOENT"]
        ELSE IF "unparsable" \in DOMAIN st.dir[filepath]
        THEN [NoOut EXCEPT !.op = "readBackup", !.arg = filepath, !.error = "SyntaxError"]
        ELSE [NoOut EXCEPT !.op = "readBackup", !.arg = filepath,
                           !.value = st.dir[filepath]]]

\* listBackups()
listBackups(st) ==
    [st EXCEPT !.out =
        [NoOut EXCEPT
            !.op = "listBackups",
            !.names =
                IF ~st.exists THEN <<>>
                ELSE Reverse(Sort({f \in DOMAIN st.dir :
                        /\ startsWith(f, <<"b", "a", "c", "k", "u", "p", "-">>)
                        /\ endsWith(f, <<".", "j", "s", "o", "n">>)}))]]

\* files somebody else put into the directory
NotesFile == <<"n", "o", "t", "e", "s", ".", "t", "x", "t">>
OldFile == <<"b", "a", "c", "k", "u", "p", "-", "o", "l", "d", ".", "j", "s", "o", "n">>
ForeignDirs ==
    {EmptyMap}
    \cup {[f \in {NotesFile, OldFile} |-> IF f = OldFile THEN c ELSE [unparsable |-> TRUE]] :
            c \in {[unparsable |-> TRUE], [timestamp |-> <<"t">>]}}

\* the settings a capture is taken of
CaptureCases ==
    {ReadCurrent([NoRemote EXCEPT !.variables = Only("A", Json(Num(1))), !.org = o]) :
        o \in {EmptyMap, SettledOrg}}

InitBackup ==
    /\ eqCall = NoEqCall /\ diffCall = NoDiffCall /\ rsCall = NoRsCall /\ utilCall = NoCall
    /\ RunIdle
    /\ \E d \in ForeignDirs, t \in Instants, e \in BOOLEAN :
          /\ e \/ d = EmptyMap
          /\ store = [NoStore EXCEPT !.exists = e, !.dir = d, !.now = t]

\* time passes
BkTick ==
    /\ \E t \in Instants : Later(store.now, t) /\ store' = [store EXCEPT !.now = t]
    /\ UNCHANGED <<eqCall, diffCall, rsCall, utilCall, runVars>>

BkCreateBackup ==
    /\ Len(store.captures) < MaxCaptures
    /\ \E current \in CaptureCases : store' = createBackup(store, current)
    /\ UNCHANGED <<eqCall, diffCall, rsCall, utilCall, runVars>>

BkReadBackup ==
    /\ \E filepath \in DOMAIN store.dir \cup {filename(t) : t \in Instants} :
          store' = readBackup(store, filepath)
    /\ UNCHANGED <<eqCall, diffCall, rsCall, utilCall, runVars>>

BkListBackups ==
    /\ store' = listBackups(store)
    /\ UNCHANGED <<eqCall, diffCall, rsCall, utilCall, runVars>>

NextBackup == BkTick \/ BkCreateBackup \/ BkReadBackup \/ BkListBackups

SpecBackup == InitBackup /\ [][NextBackup]_vars

(***************************************************************************)
(* The readers of OrganizationService, the platform answering the one call *)
(* each makes with data, with 404 Not Found, or with another error.        *)
(***************************************************************************)
Answers == {"ok", "notfound", "fail"}

Returned(value) == [threw |-> FALSE, value |-> value]
Thrown == [threw |-> TRUE, value |-> <<>>]

\* getActionVariables(): catch, error.status === 404 ? {} : throw
getActionVariablesAnswered(r, answer) ==
    CASE answer = "ok" -> Returned(getActionVariables(r))
      [] answer = "notfound" -> Returned(EmptyMap)
      [] OTHER -> Thrown

\* getActionSecretNames(): catch, error.status === 404 ? [] : throw
getActionSecretNamesAnswered(r, answer) ==
    CASE answer = "ok" -> Returned(getActionSecretNames(r))
      [] answer = "notfound" -> Returned(<<>>)
      [] OTHER -> Thrown

\* getMemberPrivileges(): catch, throw new Error
getMemberPrivilegesAnswered(r, answer) ==
    CASE answer = "ok" -> Returned(getMemberPrivileges(r))
      [] OTHER -> Thrown

\* getBranchRulesets(): catch, error.status === 404 ? [] : throw new Error
getBranchRulesetsAnswered(r, answer) ==
    CASE answer = "ok" -> Returned(r.rulesets)
      [] answer = "notfound" -> Returned(<<>>)
      [] OTHER -> Thrown

\* getTeams(): catch, error.status === 404 ? [] : throw new Error
getTeamsAnswered(r, answer) ==
    CASE answer = "ok" -> Returned(r.teams)
      [] answer = "notfound" -> Returned(<<>>)
      [] OTHER -> Thrown

Readers ==
    {"getActionVariables", "getActionSecretNames", "getMemberPrivileges",
     "getBranchRulesets", "getTeams"}

InitReaders ==
    /\ eqCall = NoEqCall /\ diffCall = NoDiffCall /\ rsCall = NoRsCall /\ store = NoStore
    /\ RunIdle
    /\ \E fn \in Readers, answer \in Answers,
          r \in FullRemotes(Json(Num(1)), Bool(TRUE)) :
          utilCall = [fn |-> fn, r |-> r, answer |-> answer, done |-> FALSE,
                      res |-> Thrown]

\* the reader called returns or throws
Read(res) ==
    /\ ~utilCall.done
    /\ utilCall' = [utilCall EXCEPT !.done = TRUE, !.res = res]
    /\ UNCHANGED <<eqCall, diffCall, rsCall, store, runVars>>

RdActionVariables ==
    /\ utilCall.fn = "getActionVariables"
    /\ Read(getActionVariablesAnswered(utilCall.r, utilCall.answer))

RdActionSecretNames ==
    /\ utilCall.fn = "getActionSecretNames"
    /\ Read(getActionSecretNamesAnswered(utilCall.r, utilCall.answer))

RdMemberPrivileges ==
    /\ utilCall.fn = "getMemberPrivileges"
    /\ Read(getMemberPrivilegesAnswered(utilCall.r, utilCall.answer))

RdBranchRulesets ==
    /\ utilCall.fn = "getBranchRulesets"
    /\ Read(getBranchRulesetsAnswered(utilCall.r, utilCall.answer))

RdTeams ==
    /\ utilCall.fn = "getTeams"
    /\ Read(getTeamsAnswered(utilCall.r, utilCall.answer))

NextReaders ==
    \/ RdActionVariables \/ RdActionSecretNames \/ RdMemberPrivileges
    \/ RdBranchRulesets \/ RdTeams

SpecReaders == InitReaders /\ [][NextReaders]_vars

(***************************************************************************)
(* PromptManager.confirm (src/utils/prompt.js).                            *)
(***************************************************************************)
\* an answer typed has at most MaxAnswer characters
MaxAnswer == 3

\* the characters an answer is typed with
AnswerChars == {" ", "n", "N", "o", "O", "y"}

\* the lines that can be typed
TypedAnswers ==
    UNION {[1..len -> AnswerChars] : len \in 0..MaxAnswer}

\* answer.trim()
RECURSIVE trim(_)
trim(str) ==
    IF str = <<>> THEN str
    ELSE IF Head(str) = " " THEN trim(Tail(str))
    ELSE IF str[Len(str)] = " " THEN trim(SubSeq(str, 1, Len(str) - 1))
    ELSE str

\* str.toLowerCase()
toLowerCase(str) ==
    [i \in 1..Len(str) |->
        CASE str[i] = "N" -> "n"
          [] str[i] = "O" -> "o"
          [] OTHER -> str[i]]

\* chalk.gray(text): the text between the codes that switch the colour
gray(text) == <<"ESC[90m">> \o text \o <<"ESC[39m">>

\* the text rl.question prints: `${question} ${chalk.gray('(Y/n)')} `
questionText(question) ==
    question \o <<" ">> \o gray(<<"(", "Y", "/", "n", ")">>) \o <<" ">>

\* the callback with the answer lower-cased but not trimmed
resolvedUntrimmed(answer) ==
    LET normalized == toLowerCase(answer)
    IN normalized # <<"n">> /\ normalized # <<"n", "o">>

\* the callback of rl.question: what the promise of confirm resolves to
resolved(answer) ==
    LET normalized == toLowerCase(trim(answer))
    IN normalized # <<"n">> /\ normalized # <<"n", "o">>

\* the questions confirm is called with
Questions ==
    {<<"A", "p", "p", "l", "y", "?">>, <<"R", "e", "s", "t", "o", "r", "e", "?">>}

InitConfirm ==
    /\ eqCall = NoEqCall /\ diffCall = NoDiffCall /\ rsCall = NoRsCall /\ store = NoStore
    /\ RunIdle
    /\ \E q \in Questions :
          utilCall = [fn |-> "confirm", question |-> q, at |-> "called", text |-> <<>>,
                      answer |-> <<>>, result |-> TRUE]

\* confirm(question): the question is printed, the promise is pending
PmQuestion ==
    /\ utilCall.fn = "confirm" /\ utilCall.at = "called"
    /\ utilCall' = [utilCall EXCEPT !.at = "asked", !.text = questionText(utilCall.question)]
    /\ UNCHANGED <<eqCall, diffCall, rsCall, store, runVars>>

\* a line is typed: the callback resolves the promise
PmAnswer ==
    /\ utilCall.fn = "confirm" /\ utilCall.at = "asked"
    /\ \E answer \in TypedAnswers :
          utilCall' = [utilCall EXCEPT !.at = "resolved", !.answer = answer,
                                       !.result = resolved(answer)]
    /\ UNCHANGED <<eqCall, diffCall, rsCall, store, runVars>>

NextConfirm == PmQuestion \/ PmAnswer

SpecConfirm == InitConfirm /\ [][NextConfirm]_vars

(***************************************************************************)
(* configure-org with every prompt answered and every remote call          *)
(* returning or failing in the end: a step that can be taken is taken.     *)
(***************************************************************************)
InitFair ==
    /\ PureIdle
    /\ AtStart("configure-org")
    /\ backups = <<>>
    /\ \E v \in VariableCases, t \in ResourceCases, l \in LabelCases, b \in {"none", "json"} :
          /\ remote = [variables |-> v[1], secrets |-> EmptyMap,
                       org |-> Only("members_can_create_teams", Bool(TRUE)),
                       rulesets |-> t[3], teams |-> t[1], repos |-> Repos]
          /\ files = [variables |-> v[2], secrets |-> Only("S", Str(Raw("pw"))),
                      privileges |-> Only("members_can_create_teams", Bool(FALSE)),
                      rulesets |-> t[4], teams |-> t[2], labels |-> l, broken |-> b]

NextConfigure ==
    \/ CfgReadCurrent \/ CfgCreateBackup \/ CfgLoadDesired \/ CfgAdvance
    \/ CfgVariable \/ CfgSecret \/ CfgPrivilege \/ CfgRuleset \/ CfgTeam \/ CfgLabels
    \/ CfgSummary

SpecFair == InitFair /\ [][NextConfigure]_vars /\ WF_vars(NextConfigure)

(***************************************************************************)
(* setActionVariable step by step, with an external actor that creates or  *)
(* deletes the variable between the calls.                                 *)
(***************************************************************************)
\* the external actor acts at most MaxExternal times
MaxExternal == 2

InitVariableRace ==
    /\ eqCall = NoEqCall /\ diffCall = NoDiffCall /\ rsCall = NoRsCall /\ store = NoStore
    /\ RunIdle
    /\ \E v \in {EmptyMap, Only("A", Raw("x")), Only("A", Json(Num(1)))},
          value \in {Num(1), Str(Raw("x")), Obj(Only("a", Num(1))), Bool(TRUE), Undef} :
          utilCall = [fn |-> "setActionVariable", name |-> "A", value |-> value,
                      variables |-> v, at |-> "check", external |-> 0, writes |-> <<>>]

\* a write of setActionVariable; existed: the variable was there when the
\* platform received it
VariableWrite(op, ok) ==
    [op |-> op, existed |-> utilCall.name \in DOMAIN utilCall.variables, ok |-> ok]

\* the variables with the name set to the text
Stored(text) ==
    [k \in DOMAIN utilCall.variables \cup {utilCall.name} |->
        IF k = utilCall.name THEN text ELSE utilCall.variables[k]]

\* getOrgVariable: found, 404, or another error
SvCheck ==
    /\ utilCall.fn = "setActionVariable" /\ utilCall.at = "check"
    /\ \E outcome \in Outcomes :
          utilCall' = [utilCall EXCEPT !.at =
              IF outcome = "fail" THEN "threw"
              ELSE IF utilCall.name \in DOMAIN utilCall.variables THEN "update"
              ELSE "create"]
    /\ UNCHANGED <<eqCall, diffCall, rsCall, store, runVars>>

\* somebody else creates or deletes the variable before the write
SvExternal ==
    /\ utilCall.fn = "setActionVariable" /\ utilCall.at \in {"update", "create"}
    /\ utilCall.external < MaxExternal
    /\ utilCall' = [utilCall EXCEPT
          !.external = @ + 1,
          !.variables = IF utilCall.name \in DOMAIN utilCall.variables
                        THEN [k \in DOMAIN utilCall.variables \ {utilCall.name} |->
                                 utilCall.variables[k]]
                        ELSE Stored(Raw("ext"))]
    /\ UNCHANGED <<eqCall, diffCall, rsCall, store, runVars>>

\* updateOrgVariable: 404 when the variable is gone, which the inner catch
\* answers with the create; any other error is thrown
SvUpdate ==
    /\ utilCall.fn = "setActionVariable" /\ utilCall.at = "update"
    /\ \E outcome \in Outcomes :
          LET there == utilCall.name \in DOMAIN utilCall.variables
              ok == there /\ outcome = "ok"
          IN utilCall' = [utilCall EXCEPT
                !.writes = Append(@, VariableWrite("updateOrgVariable", ok)),
                !.variables = IF ok THEN Stored(ToStringValue(utilCall.value)) ELSE @,
                !.at = IF ok THEN "done"
                       ELSE IF ~there /\ outcome = "ok" THEN "create"
                       ELSE "threw"]
    /\ UNCHANGED <<eqCall, diffCall, rsCall, store, runVars>>

\* createOrgVariable: rejected when the variable is there
SvCreate ==
    /\ utilCall.fn = "setActionVariable" /\ utilCall.at = "create"
    /\ \E outcome \in Outcomes :
          LET ok == utilCall.name \notin DOMAIN utilCall.variables /\ outcome = "ok"
          IN utilCall' = [utilCall EXCEPT
                !.writes = Append(@, VariableWrite("createOrgVariable", ok)),
                !.variables = IF ok THEN Stored(ToStringValue(utilCall.value)) ELSE @,
                !.at = IF ok THEN "done" ELSE "threw"]
    /\ UNCHANGED <<eqCall, diffCall, rsCall, store, runVars>>

NextVariableRace == SvCheck \/ SvExternal \/ SvUpdate \/ SvCreate

SpecVariableRace == InitVariableRace /\ [][NextVariableRace]_vars

(***************************************************************************)
(* configure-org over declarations of up to two rulesets, against an       *)
(* organisation with up to two.                                            *)
(***************************************************************************)
MaxRulesets == 2

ReleaseRuleset == [id |-> 4, name |-> "release", bypass_actors |-> <<>>]

\* lists without repetition of up to MaxRulesets of the items
ListsOf(items) ==
    {l \in UNION {[1..n -> items] : n \in 0..MaxRulesets} :
        \A i \in 1..Len(l) : \A j \in 1..Len(l) : i # j => l[i] # l[j]}

InitRulesets ==
    /\ PureIdle
    /\ AtStart("configure-org")
    /\ backups = <<>>
    /\ \E rs \in ListsOf({ProtectRuleset, ReleaseRuleset}),
          ds \in ListsOf({[name |-> n, bypass_actors |-> <<>>] :
                             n \in {"protect", "release", "hotfix"}}) :
          /\ remote = [NoRemote EXCEPT !.rulesets = rs, !.org = SettledOrg]
          /\ files = [NoFiles EXCEPT !.privileges = SettledOrg, !.rulesets = ds]

NextRulesets ==
    \/ CfgReadCurrent \/ CfgCreateBackup \/ CfgLoadDesired \/ CfgAdvance
    \/ CfgRuleset \/ CfgSummary

SpecRulesets == InitRulesets /\ [][NextRulesets]_vars

(***************************************************************************)
(* configure-org over declared teams whose names have capitals and blanks. *)
(***************************************************************************)
MaxTeams == 2

CourseStaffTeam ==
    [id |-> 9, slug |-> "course-staff", name |-> "Course  Staff", members |-> EmptyMap]

\* lists without repetition of up to MaxTeams of the items
TeamListsOf(items) ==
    {l \in UNION {[1..n -> items] : n \in 0..MaxTeams} :
        \A i \in 1..Len(l) : \A j \in 1..Len(l) : i # j => l[i] # l[j]}

InitTeamNames ==
    /\ PureIdle
    /\ AtStart("configure-org")
    /\ backups = <<>>
    /\ \E rt \in TeamListsOf({StaffTeam, CourseStaffTeam}),
          dt \in TeamListsOf({[name |-> n,
                               members |-> <<[username |-> "u1", role |-> "member"]>>] :
                                 n \in {"Staff", "Course  Staff", "tutors"}}) :
          /\ remote = [NoRemote EXCEPT !.teams = rt, !.org = SettledOrg]
          /\ files = [NoFiles EXCEPT !.privileges = SettledOrg, !.teams = dt]

SpecTeamNames == InitTeamNames /\ [][NextTeams]_vars

(***************************************************************************)
(* configure-org applying two declared labels to every repository.         *)
(***************************************************************************)
InitLabelWrites ==
    /\ PureIdle
    /\ AtStart("configure-org")
    /\ backups = <<>>
    /\ \E labels \in {<<[name |-> "bug"], [name |-> "docs"]>>,
                      <<[name |-> "docs"], [name |-> "bug"]>>} :
          /\ remote = [NoRemote EXCEPT !.repos = Repos, !.org = SettledOrg]
          /\ files = [NoFiles EXCEPT
                         !.privileges = SettledOrg,
                         !.labels = [labels |-> labels, apply_to_repos |-> <<>>]]

SpecLabelWrites == InitLabelWrites /\ [][NextLabels]_vars

(***************************************************************************)
(* createBranchRuleset and updateBranchRuleset over bypass actors that     *)
(* name teams by their name and by their slug.                             *)
(***************************************************************************)
NamedActorPool ==
    {[actor_type |-> "Team", team |-> "Course  Staff"],
     [actor_type |-> "Team", team |-> "course-staff"],
     [actor_type |-> "Team", team |-> "Staff"],
     [actor_type |-> "Team", team |-> "staff"],
     [actor_type |-> "OrganizationAdmin", actor_id |-> 1]}

InitTeamReference ==
    /\ rsCall \in {[op |-> o,
                    r |-> [NoRemote EXCEPT !.teams = t,
                              !.rulesets = IF o = "update" THEN <<ProtectRuleset>> ELSE <<>>],
                    ruleset |-> [name |-> "protect", bypass_actors |-> a],
                    done |-> FALSE, res |-> NoRsResult] :
                      o \in {"create", "update"},
                      t \in {<<CourseStaffTeam>>, <<StaffTeam, CourseStaffTeam>>},
                      a \in UNION {[1..n -> NamedActorPool] : n \in 0..MaxActors}}
    /\ eqCall = NoEqCall /\ diffCall = NoDiffCall /\ UtilIdle
    /\ RunIdle

SpecTeamReference == InitTeamReference /\ [][NextRuleset]_vars

(***************************************************************************)
(* BranchService.createBranches step by step, with pushes to the default   *)
(* branch by others between the calls.                                     *)
(***************************************************************************)
\* arbitrary lists of requested branches have at most MaxBranches names
MaxBranches == 2

\* BranchService.getKmomBranches(mode)
getKmomBranches(mode) ==
    IF mode = "kmom03-only" THEN <<"bth/submit/kmom03">>
    ELSE <<"bth/submit/kmom03", "bth/submit/kmom06", "bth/submit/kmom10">>

BranchNames == {"bth/submit/kmom03", "bth/submit/kmom06"}

\* the lists of branches a caller may request
BranchLists ==
    {getKmomBranches(m) : m \in {"all", "kmom03-only"}}
        \cup UNION {[1..n -> BranchNames] : n \in 0..MaxBranches}

InitBranches ==
    /\ eqCall = NoEqCall /\ diffCall = NoDiffCall /\ rsCall = NoRsCall /\ store = NoStore
    /\ RunIdle
    /\ \E branches \in BranchLists, there \in SUBSET BranchNames :
          utilCall = [fn |-> "createBranches", branches |-> branches,
                      head |-> 1, refs |-> [b \in there |-> 1],
                      at |-> "repo", sha |-> 0, todo |-> branches, external |-> 0,
                      calls |-> <<>>,
                      results |-> [created |-> <<>>, failed |-> <<>>, existing |-> <<>>]]

\* a handling of the answer that takes every error for an existing branch
placeAnyErrorExisting(placed, branch, status) ==
    IF status = "201" THEN [placed EXCEPT !.created = Append(@, branch)]
    ELSE [placed EXCEPT !.existing = Append(@, branch)]

\* the try and catch around git.createRef: the branch is pushed to created,
\* to existing on status 422, to failed on any other error
place(placed, branch, status) ==
    IF status = "201" THEN [placed EXCEPT !.created = Append(@, branch)]
    ELSE IF status = "422" THEN [placed EXCEPT !.existing = Append(@, branch)]
    ELSE [placed EXCEPT !.failed = Append(@, branch)]

\* repos.get: the repository is read, or the error is thrown again
BrGetRepo ==
    /\ utilCall.fn = "createBranches" /\ utilCall.at = "repo"
    /\ \E outcome \in Outcomes :
          utilCall' = [utilCall EXCEPT !.at = IF outcome = "ok" THEN "ref" ELSE "threw"]
    /\ UNCHANGED <<eqCall, diffCall, rsCall, store, runVars>>

\* git.getRef of the default branch: its commit is kept, or the error is
\* thrown again
BrGetRef ==
    /\ utilCall.fn = "createBranches" /\ utilCall.at = "ref"
    /\ \E outcome \in Outcomes :
          utilCall' = [utilCall EXCEPT
                !.sha = IF outcome = "ok" THEN utilCall.head ELSE @,
                !.at = IF outcome # "ok" THEN "threw"
                       ELSE IF utilCall.todo = <<>> THEN "done" ELSE "create"]
    /\ UNCHANGED <<eqCall, diffCall, rsCall, store, runVars>>

\* somebody else pushes a commit to the default branch
BrPush ==
    /\ utilCall.fn = "createBranches" /\ utilCall.at \in {"repo", "ref", "create"}
    /\ utilCall.external < MaxExternal
    /\ utilCall' = [utilCall EXCEPT !.external = @ + 1, !.head = @ + 1]
    /\ UNCHANGED <<eqCall, diffCall, rsCall, store, runVars>>

\* one turn of the loop: git.createRef for the next branch; the platform
\* answers 422 for a reference that exists
BrCreateRef ==
    /\ utilCall.fn = "createBranches" /\ utilCall.at = "create"
    /\ \E outcome \in Outcomes :
          LET branch == Head(utilCall.todo)
              status == IF outcome = "fail" THEN "500"
                        ELSE IF branch \in DOMAIN utilCall.refs THEN "422"
                        ELSE "201"
          IN utilCall' = [utilCall EXCEPT
                !.calls = Append(@, [ref |-> branch, sha |-> utilCall.sha,
                                     status |-> status]),
                !.refs = IF status = "201"
                         THEN [b \in DOMAIN utilCall.refs \cup {branch} |->
                                  IF b = branch THEN utilCall.sha ELSE utilCall.refs[b]]
                         ELSE @,
                !.results = place(@, branch, status),
                !.todo = Tail(@),
                !.at = IF Tail(utilCall.todo) = <<>> THEN "done" ELSE "create"]
    /\ UNCHANGED <<eqCall, diffCall, rsCall, store, runVars>>

NextBranches == BrGetRepo \/ BrGetRef \/ BrPush \/ BrCreateRef

SpecBranches == InitBranches /\ [][NextBranches]_vars

(***************************************************************************)
(* Claims about the runs of configure-org and restore-org.                 *)
(***************************************************************************)
\* prompt p is the confirmation that covers write w: the same category and
\* the same key; the one prompt of the labels section covers every label
\* write; a team's prompt covers the membership writes under its slug
Covers(p, w) ==
    /\ p.cat = w.cat
    /\ \/ p.key = w.key
       \/ p.cat = "Labels"
       \/ p.cat = "Team" /\ w.key = Slugify(p.key)

Declined(e) == e.ev = "prompt" /\ ~e.ok

\* every write in the history comes after an accepted prompt covering it
C1_WritesConfirmed ==
    \A i \in 1..Len(log) :
        IsWrite(log[i]) =>
            \E j \in 1..(i - 1) : log[j].ev = "prompt" /\ log[j].ok /\ Covers(log[j], log[i])

\* a declined prompt is followed by no write it covers, and its change is
\* in skipped
C1_DeclinedSkipped ==
    \A j \in 1..Len(log) :
        Declined(log[j]) =>
            /\ \A i \in 1..Len(log) : ~(IsWrite(log[i]) /\ Covers(log[j], log[i]))
            /\ \E n \in 1..Len(results.skipped) :
                  /\ results.skipped[n].cat = log[j].cat
                  /\ results.skipped[n].key = log[j].key

\* the step in which a prompt is declined leaves the remote state as it was
C1_DeclineStep ==
    (Len(log') > Len(log) /\ Declined(log'[Len(log')])) => remote' = remote

\* C1: in configure-org and restore-org no remote write is issued for a
\* change unless the prompt covering it was answered yes before; when the
\* answer is no, no write for the change is issued, the remote state is left
\* unchanged, and the change is added to skipped.
C1_ConfirmBeforeWrite ==
    /\ [](C1_WritesConfirmed /\ C1_DeclinedSkipped)
    /\ [][C1_DeclineStep]_vars

\* a run that ended with one change declined and another written
C1_Witness ==
    /\ pc = "done"
    /\ \E j \in 1..Len(log) : Declined(log[j])
    /\ \E i \in 1..Len(log) : IsWrite(log[i]) /\ log[i].ok

\* the declarations of configure-org are loaded
DeclarationsLoaded == cmd = "configure-org" /\ goal # NoGoal

\* C2: in configure-org, once the declarations are loaded, no failure of a
\* single change or remote call in any category aborts the run; the summary
\* is produced at the end.
C2_FailureNeverAborts == DeclarationsLoaded => pc # "aborted"

\* the keys of the secret changes of type remove of this run
RemovedSecrets ==
    LET changes == compare(MaskedSecrets(cur.secretNames), goal.actionSecrets)
    IN {changes[i].key : i \in {n \in 1..Len(changes) : changes[n].type = "remove"}}

\* the loop over secretChanges has handled key k
SecretHandled(k) ==
    \/ pc \in {"privileges", "rulesets", "teams", "labels", "summary", "done"}
    \/ pc = "secrets" /\ \A i \in 1..Len(work) : work[i].key # k

HasEntry(list, cat, k) == \E n \in 1..Len(list) : list[n].cat = cat /\ list[n].key = k

\* C3: a remove change of the secrets category is always placed in skipped,
\* whether its prompt is accepted or declined; it is never in failed or
\* successful, and no remote call about that secret is issued.
C3_SecretRemoveSkipped ==
    DeclarationsLoaded =>
        \A k \in RemovedSecrets :
            /\ SecretHandled(k) => HasEntry(results.skipped, "Secret", k)
            /\ ~HasEntry(results.successful, "Secret", k)
            /\ ~HasEntry(results.failed, "Secret", k)
            /\ \A i \in 1..Len(log) :
                  ~(log[i].ev = "call" /\ log[i].cat = "Secret" /\ log[i].key = k)

\* the removal of a secret was accepted at the prompt and is in skipped
C3_Witness ==
    /\ DeclarationsLoaded
    /\ \E k \in RemovedSecrets :
          /\ SecretHandled(k)
          /\ \E j \in 1..Len(log) :
                log[j].ev = "prompt" /\ log[j].ok /\ log[j].cat = "Secret" /\ log[j].key = k
          /\ HasEntry(results.skipped, "Secret", k)

\* the teams the bypass actors of the ruleset refer to that the lookup of
\* the remote does not find
UnresolvableTeams ==
    LET actors == rsCall.ruleset.bypass_actors
    IN {actors[i].team : i \in {n \in 1..Len(actors) :
                                   /\ IsTeamReference(actors[n])
                                   /\ ~getTeamId(rsCall.r, actors[n].team).ok}}

RulesetWrites == {"createOrgRuleset", "updateOrgRuleset"}

\* C4: applying (create or update) a ruleset one of whose bypass actors
\* refers to a team the lookup does not find fails with an error naming an
\* unresolvable team, and issues no create-ruleset or update-ruleset call,
\* wherever the failing actor stands among the others.
C4_UnresolvedTeamFails ==
    (rsCall.done /\ UnresolvableTeams # {}) =>
        /\ ~rsCall.res.ok
        /\ rsCall.res.error.kind = "unresolved"
        /\ rsCall.res.error.team \in UnresolvableTeams
        /\ \A i \in 1..Len(rsCall.res.calls) : rsCall.res.calls[i].op \notin RulesetWrites
        /\ rsCall.res.remote = rsCall.r

\* an update whose second actor cannot be resolved, after a first that can
C4_Witness ==
    /\ rsCall.done /\ rsCall.op = "update"
    /\ Len(rsCall.ruleset.bypass_actors) = 2
    /\ rsCall.ruleset.bypass_actors[1] = [actor_type |-> "Team", team |-> "staff"]
    /\ getTeamId(rsCall.r, "staff").ok
    /\ rsCall.ruleset.bypass_actors[2] = [actor_type |-> "Team", team |-> "ghost"]
    /\ rsCall.res.error = Unresolved("ghost")

\* the position in the history where the second run starts, 0 before it
SecondRun ==
    IF \E i \in 1..Len(log) : log[i] = RunStart
    THEN CHOOSE i \in 1..Len(log) : log[i] = RunStart /\ \A j \in 1..(i - 1) : log[j] # RunStart
    ELSE 0

\* C5: when configure-org is run again right after a run that applied a
\* change (accepted, no remote error), with the same declarations and
\* nothing else writing, the second run issues no prompt and no write for
\* that key (variables, secrets, member privileges; add, update, remove).
C5_RerunConverges ==
    SecondRun # 0 =>
        \A i \in 1..(SecondRun - 1) :
            (IsWrite(log[i]) /\ log[i].ok) =>
                \A j \in (SecondRun + 1)..Len(log) :
                    ~(/\ log[j].cat = log[i].cat /\ log[j].key = log[i].key
                      /\ (log[j].ev = "prompt" \/ IsWrite(log[j])))

\* the change restore-org is to process for key k of the variables: none
\* when k is in neither or has the same value in both
ExpectedChanges(C, D) ==
    {Change(k, "update", C[k], D[k]) :
        k \in {x \in DOMAIN C \cap DOMAIN D : C[x] # D[x]}}
    \cup {Change(k, "add", Undef, D[k]) : k \in DOMAIN D \ DOMAIN C}
    \cup {Change(k, "remove", C[k], Undef) : k \in DOMAIN C \ DOMAIN D}

\* the keys of category cat prompted for so far
PromptedKeys(cat) ==
    {log[i].key : i \in {n \in 1..Len(log) : log[n].ev = "prompt" /\ log[n].cat = cat}}

\* C11: restore is diff with swapped roles: for the snapshot's variables D
\* and the live variables C, restore-org processes exactly update k for
\* keys in both with different values, add k for keys only in the snapshot
\* and remove k for keys only in the live state.
C11_RestoreIsSwappedDiff ==
    (cmd = "restore-org" /\ pc \in {"variables", "secrets", "privileges", "summary", "done"}) =>
        LET expected == ExpectedChanges(cur.variables, goal.actionVariables)
        IN /\ (pc = "variables" /\ log # <<>> /\ PromptedKeys("Variable") = {}
               /\ results = EmptyResults) =>
                  {work[i] : i \in 1..Len(work)} = expected
           /\ pc # "variables" =>
                  PromptedKeys("Variable") = {ch.key : ch \in expected}

\* in the second run every prompt was accepted and no write failed
SecondRunClean ==
    /\ SecondRun # 0
    /\ \A j \in (SecondRun + 1)..Len(log) :
          /\ ~Declined(log[j])
          /\ ~(IsWrite(log[j]) /\ ~log[j].ok)

\* C12: when restore-org is run with the snapshot configure-org persisted
\* at its start, every prompt accepted and no call failing, the remote
\* variables and member privileges afterwards equal those of the snapshot:
\* changed keys have their captured values, added keys are gone.
C12_RestoreUndoes ==
    (cmd = "restore-org" /\ pc = "done" /\ SecondRunClean) =>
        /\ getActionVariables(remote) = backups[1].settings.actionVariables
        /\ JsonRoundTrip(getMemberPrivileges(remote)) = backups[1].settings.memberPrivileges

\* C13: in configure-org the snapshot of the current remote state is
\* persisted before the first remote write of the run; when reading the
\* current state or persisting the snapshot fails, the run ends without a
\* remote write.
C13_SnapshotBeforeWrite ==
    cmd = "configure-org" =>
        /\ (\E i \in 1..Len(log) : IsWrite(log[i])) =>
              (backups # <<>> /\ backups[Len(backups)] = Snapshot(cur))
        /\ (pc = "aborted" /\ backups = <<>>) =>
              \A i \in 1..Len(log) : ~IsWrite(log[i])

\* a run of configure-org that has written, its snapshot persisted
C13_Witness ==
    /\ cmd = "configure-org" /\ backups # <<>>
    /\ \E i \in 1..Len(log) : IsWrite(log[i]) /\ log[i].ok

\* the values of a mapping
Range(f) == {f[k] : k \in DOMAIN f}

\* every value a snapshot holds in its variables, secrets and privileges
SnapshotValues(b) ==
    Range(b.settings.actionVariables) \cup Range(b.settings.memberPrivileges)
    \cup {Str(Raw(b.settings.actionSecrets[i])) : i \in 1..Len(b.settings.actionSecrets)}

\* the secret values of the run: those declared in action-secrets.env and
\* those stored remotely, sent in a secret write or there before
SecretValues == Range(files.secrets) \cup Range(remote.secrets)

\* C14: no secret value appears in a persisted snapshot: the snapshot of a
\* configure-org run holds for the secrets only the names the platform
\* lists, and neither a value of the secrets file nor a value sent in a
\* secret write.
C14_NoSecretValueInSnapshot ==
    cmd = "configure-org" =>
        \A n \in 1..Len(backups) :
            /\ backups[n].settings.actionSecrets = cur.secretNames
            /\ \A i \in 1..Len(backups[n].settings.actionSecrets) :
                  backups[n].settings.actionSecrets[i] \in DOMAIN remote.secrets
            /\ SnapshotValues(backups[n]) \cap SecretValues = {}

\* a snapshot naming a remote secret, persisted in a run that wrote a secret
C14_Witness ==
    /\ cmd = "configure-org" /\ backups # <<>>
    /\ \E i \in 1..Len(log) : log[i].op = "createOrUpdateOrgSecret" /\ log[i].ok
    /\ SecretValues # {}

\* the number of the lists of results that describe key k of category cat
ListsWith(cat, k) ==
    (IF HasEntry(results.successful, cat, k) THEN 1 ELSE 0)
    + (IF HasEntry(results.skipped, cat, k) THEN 1 ELSE 0)
    + (IF HasEntry(results.failed, cat, k) THEN 1 ELSE 0)

AllEntries == results.successful \o results.skipped \o results.failed

\* C15: at the end of a configure-org run every prompted change or
\* resource is described in exactly one of successful, skipped, failed, and
\* nothing is in successful when a part of its application (a member
\* upsert, a label write) failed.
C15_ResultNeverPartial ==
    (cmd = "configure-org" /\ pc = "done") =>
        /\ \A j \in 1..Len(log) :
              (log[j].ev = "prompt" /\ log[j].cat # "Labels") =>
                  ListsWith(log[j].cat, log[j].key) = 1
        /\ \A n \in 1..Len(AllEntries) :
              ListsWith(AllEntries[n].cat, AllEntries[n].key) = 1

\* the membership calls issued for the team of that slug, in order
MemberCalls(slug) ==
    SelectSeq(log, LAMBDA e : e.op = "addOrUpdateMembershipForUserInOrg" /\ e.key = slug)

\* the team-level call of declared team d succeeded
TeamWritten(d) ==
    \E i \in 1..Len(log) :
        /\ log[i].op \in {"teams.create", "teams.updateInOrg"}
        /\ log[i].key = d.name /\ log[i].ok

\* the entries of failed about member u of team d
MemberFailures(d, u) ==
    SelectSeq(results.failed, LAMBDA e : e.cat = "Team" /\ e.key = d.name /\ e.note = u)

\* C16: a failing member upsert does not keep the remaining members of the
\* team, nor the teams after it, from being processed: each declared member
\* of a created or updated team gets exactly one upsert call, in the order
\* declared, and each failure is in failed exactly once.
C16_MemberFailureIsolated ==
    DeclarationsLoaded =>
        /\ \A t \in 1..Len(goal.teams) :
              LET d == goal.teams[t]
                  calls == MemberCalls(Slugify(d.name))
              IN TeamWritten(d) =>
                    /\ Len(calls) = Len(d.members)
                    /\ \A i \in 1..Len(calls) :
                          /\ calls[i].sub = d.members[i].username
                          /\ Len(MemberFailures(d, calls[i].sub)) =
                                IF calls[i].ok THEN 0 ELSE 1
        /\ pc = "done" =>
              \A t \in 1..Len(goal.teams) : goal.teams[t].name \in PromptedKeys("Team")

\* the first member of an updated team failed, the second was added, and
\* the team after it was created with its members
C16_Witness ==
    /\ pc = "done"
    /\ \E i \in 1..Len(log) : log[i].op = "teams.updateInOrg" /\ log[i].ok
    /\ \E i \in 1..Len(log) : log[i].op = "teams.create" /\ log[i].ok
    /\ Len(MemberCalls("staff")) = 2
    /\ ~MemberCalls("staff")[1].ok /\ MemberCalls("staff")[2].ok
    /\ Len(MemberCalls("tutors")) = 2

\* the repositories whose name matches at least one declared pattern
MatchingRepos ==
    {remote.repos[i].name : i \in {n \in 1..Len(remote.repos) :
        \E p \in 1..Len(goal.labels.apply_to_repos) :
            Matches(goal.labels.apply_to_repos[p], remote.repos[n].name)}}

\* the repositories the calls of the given operations were issued for
ReposOf(ops) == {log[i].key : i \in {n \in 1..Len(log) : log[n].op \in ops}}

\* C17: labels are applied to exactly the repositories whose name matches
\* at least one configured pattern, and to no other, for every pattern list,
\* the empty one (matching no repository) included.
C17_LabelsOnlyOnMatching ==
    DeclarationsLoaded =>
        /\ ReposOf({"createLabel", "updateLabel"}) \subseteq MatchingRepos
        /\ (\E j \in 1..Len(log) : log[j].ev = "prompt" /\ log[j].cat = "Labels" /\ log[j].ok)
              => ReposOf({"listLabelsForRepo"}) = MatchingRepos

SnapshotShape == {"actionVariables", "actionSecrets", "memberPrivileges"}

\* the run meets a failure that precedes applying: credentials are missing,
\* a declaration file of configure-org does not parse, or the snapshot
\* restore-org has read lacks a part of its shape
PreApplyFailure ==
    \/ files.broken = "credentials"
    \/ cmd = "configure-org" /\ files.broken \in {"json", "env"}
    \/ cmd = "restore-org" /\ pc # "start" /\ ~(SnapshotShape \subseteq DOMAIN goal)

\* C18: a failure that precedes applying (a declaration file that does not
\* parse, missing credentials, a snapshot that is corrupt or lacks a part of
\* its shape) ends configure-org or restore-org, with a non-zero exit,
\* before any remote write of the run.
C18_PreApplyFailureBeforeWrite ==
    PreApplyFailure =>
        /\ \A i \in 1..Len(log) : ~IsWrite(log[i])
        /\ pc \notin {"summary", "done"}

\* C19: a corrupt snapshot (restore-org) or a declaration that does not
\* parse (configure-org) aborts the run before any remote call, read or
\* write.
C19_ParseFailureBeforeAnyCall ==
    /\ (cmd = "configure-org" /\ files.broken \in {"json", "env"}) => log = <<>>
    /\ (cmd = "restore-org" /\ pc = "aborted" /\ goal = NoGoal) => log = <<>>

\* the write at position i of the history was refused, and so was every
\* write after it: what the platform answers to a credential that is
\* invalid or lacks the scope
RefusedFrom(i) ==
    /\ IsWrite(log[i]) /\ ~log[i].ok
    /\ \A j \in (i + 1)..Len(log) : IsWrite(log[j]) => ~log[j].ok

\* C20: an authentication failure returned by a remote call is fatal for
\* the whole run: the run aborts at once and issues no remote call after
\* it, also when the failure occurs while a confirmed change is applied.
C20_AuthFailureIsFatal ==
    \A i \in 1..Len(log) :
        RefusedFrom(i) =>
            /\ \A j \in (i + 1)..Len(log) : log[j].ev # "call"
            /\ pc \notin {"summary", "done"}

\* the place of an event's category in the order variables, secrets,
\* privileges, rulesets, teams, labels
CategoryRank(cat) ==
    CASE cat = "Variable" -> 1
      [] cat = "Secret" -> 2
      [] cat = "Privilege" -> 3
      [] cat = "Ruleset" -> 4
      [] cat = "Team" -> 5
      [] cat = "Labels" -> 6

\* the positions in the history of the prompts and the writes
PromptsAndWrites == {i \in 1..Len(log) : log[i].ev = "prompt" \/ IsWrite(log[i])}

\* C21: configure-org processes the categories in the order variables,
\* secrets, privileges, rulesets, teams, labels: every prompt and write of a
\* category comes after all prompts and writes of the categories before it,
\* whatever the answers and failures.
C21_CategoriesInOrder ==
    cmd = "configure-org" =>
        \A i \in PromptsAndWrites : \A j \in PromptsAndWrites :
            i < j => CategoryRank(log[i].cat) <= CategoryRank(log[j].cat)

\* a run with prompts in all six categories, a failed write among them
C21_Witness ==
    /\ cmd = "configure-org" /\ pc = "done"
    /\ {log[i].cat : i \in PromptsAndWrites} =
          {"Variable", "Secret", "Privilege", "Ruleset", "Team", "Labels"}
    /\ \E i \in PromptsAndWrites : IsWrite(log[i]) /\ ~log[i].ok

\* the categories of the history's prompts
PromptedCategories == {log[i].cat : i \in {n \in 1..Len(log) : log[n].ev = "prompt"}}

\* the categories whose live value, as restore-org found it, is not the one
\* the snapshot captured
DifferingCategories ==
    {c \in {"Variable", "Secret", "Privilege", "Ruleset", "Team"} :
        CASE c = "Variable" -> JsonRoundTrip(cur.variables) # goal.actionVariables
          [] c = "Secret" -> goal.actionSecrets # <<>>
          [] c = "Privilege" -> JsonRoundTrip(cur.privileges) # goal.memberPrivileges
          [] c = "Ruleset" -> cur.rulesets # goal.branchRulesets
          [] c = "Team" -> remote.teams # goal.teams}

\* C22: restore-org runs the diff-and-apply procedure for each category the
\* snapshot captured (variables, secrets, member privileges, rulesets,
\* teams), the snapshot as desired and the live state as current: a category
\* whose live value differs from the captured one leads to a prompt.
C22_RestoresEveryCategory ==
    cmd = "restore-org" /\ pc = "done" => DifferingCategories \subseteq PromptedCategories

\* the entries of the result lists about the secret k
SecretEntries(k) ==
    {n \in 1..Len(AllEntries) : AllEntries[n].cat = "Secret" /\ AllEntries[n].key = k}

\* the plaintext of the secret k is not to be had from action-secrets.env
Unavailable(k) == files.broken = "env" \/ ~Truthy(Get(files.secrets, k))

\* C23: at the end of restore-org every secret name the snapshot lists has
\* exactly one entry: in skipped, and not as an error, when its plaintext is
\* not available (no entry in the credential source, or the source cannot be
\* loaded); otherwise in successful, failed or skipped by the answer and the
\* result of the write.
C23_SecretsAccounted ==
    (cmd = "restore-org" /\ pc = "done") =>
        \A i \in 1..Len(goal.actionSecrets) :
            LET k == goal.actionSecrets[i]
            IN /\ Cardinality(SecretEntries(k)) = 1
               /\ Unavailable(k) =>
                     HasEntry(results.skipped, "Secret", k)
                     /\ ~HasEntry(results.failed, "Secret", k)

\* the writes of the history that failed
FailedWrites == {i \in 1..Len(log) : IsWrite(log[i]) /\ ~log[i].ok}

\* the entries of failed about the write e: those of its category, its key
\* (a team's member upsert is keyed by the slug, its entry by the name) and
\* its part
FailedEntriesOf(e) ==
    {n \in 1..Len(results.failed) :
        /\ results.failed[n].cat = e.cat
        /\ results.failed[n].note = e.sub
        /\ e.key \in {results.failed[n].key, Slugify(results.failed[n].key)}}

ActorsWritten ==
    LET rulesets == rsCall.res.remote.rulesets
        i == CHOOSE n \in 1..Len(rulesets) : rulesets[n].name = rsCall.ruleset.name
    IN rulesets[i].bypass_actors

\* C33: the descriptor returned by the resolution never retains the
\* symbolic name: for every list of bypass actors each output actor has no
\* team field, each actor that carried a team reference has actor_id set to
\* the identifier looked up, and all other fields and the order of the
\* actors are unchanged.
C33_NoTeamFieldLeft ==
    (rsCall.done /\ rsCall.res.ok) =>
        LET given == rsCall.ruleset.bypass_actors
        IN /\ Len(ActorsWritten) = Len(given)
           /\ \A i \in 1..Len(given) :
                 /\ "team" \notin DOMAIN ActorsWritten[i]
                 /\ IsTeamReference(given[i]) =>
                       ActorsWritten[i].actor_id = getTeamId(rsCall.r, given[i].team).id
                 /\ \A f \in DOMAIN given[i] \ {"team"} :
                       (f # "actor_id" \/ ~IsTeamReference(given[i])) =>
                           (f \in DOMAIN ActorsWritten[i] /\ ActorsWritten[i][f] = given[i][f])

\* C33 for the actors that are team references or carry no team field
ReferencesReplaced ==
    (rsCall.done /\ rsCall.res.ok) =>
        LET given == rsCall.ruleset.bypass_actors
        IN /\ Len(ActorsWritten) = Len(given)
           /\ \A i \in 1..Len(given) :
                 (IsTeamReference(given[i]) \/ "team" \notin DOMAIN given[i]) =>
                    /\ "team" \notin DOMAIN ActorsWritten[i]
                    /\ IsTeamReference(given[i]) =>
                          ActorsWritten[i].actor_id = getTeamId(rsCall.r, given[i].team).id
                    /\ \A f \in DOMAIN given[i] \ {"team"} :
                          (f # "actor_id" \/ ~IsTeamReference(given[i])) =>
                              ActorsWritten[i][f] = given[i][f]

\* the operations of the ruleset writes issued for the declared name
RulesetOpsFor(name) ==
    {log[i].op : i \in {n \in 1..Len(log) :
        log[n].op \in RulesetWrites /\ log[n].key = name}}

\* the declared rulesets whose turn is over
RulesetsDone ==
    IF pc = "rulesets" THEN Len(goal.branchRulesets) - Len(work)
    ELSE IF pc \in {"teams", "labels", "summary", "done"} THEN Len(goal.branchRulesets)
    ELSE 0

\* C34: for each declared ruleset configure-org issues an update exactly
\* when a remote ruleset of the same name is in the state read at the start,
\* and then with that ruleset's id; it issues a create exactly when no
\* remote ruleset has the name; it never issues both for one declared
\* ruleset.
C34_UpdateByNameAndId ==
    DeclarationsLoaded =>
        /\ \A d \in 1..RulesetsDone :
              LET name == goal.branchRulesets[d].name
                  accepted == \E i \in 1..Len(log) :
                                 log[i] = Prompt("Ruleset", name, TRUE)
                  exists == \E i \in 1..Len(cur.rulesets) : cur.rulesets[i].name = name
              IN RulesetOpsFor(name) =
                    IF ~accepted THEN {}
                    ELSE IF exists THEN {"updateOrgRuleset"}
                    ELSE {"createOrgRuleset"}
        /\ \A i \in 1..Len(cur.rulesets) :
              /\ remote.rulesets[i].id = cur.rulesets[i].id
              /\ remote.rulesets[i].name = cur.rulesets[i].name

\* the second of two remote rulesets was updated and a new one created
C34_Witness ==
    /\ cmd = "configure-org" /\ pc = "done"
    /\ Len(cur.rulesets) = 2
    /\ \E i \in 1..Len(log) :
          log[i] = Call("updateOrgRuleset", "Ruleset", cur.rulesets[2].name, TRUE)
    /\ \E i \in 1..Len(log) : log[i] = Call("createOrgRuleset", "Ruleset", "hotfix", TRUE)

\* the teams a declared ruleset refers to that were not among the remote
\* teams when the run started
MissingTeamsOf(ruleset) ==
    {ruleset.bypass_actors[i].team : i \in {n \in 1..Len(ruleset.bypass_actors) :
        /\ IsTeamReference(ruleset.bypass_actors[n])
        /\ TeamIndex(cur.teams, ruleset.bypass_actors[n].team) = 0}}

TeamWrites == {"teams.create", "teams.updateInOrg", "addOrUpdateMembershipForUserInOrg"}

\* C35: within one configure-org run every ruleset create or update is
\* attempted before any team create or update; so a ruleset whose bypass
\* actor names a team that is declared in the same run but does not exist
\* remotely yet is recorded in failed with an explicit resolution error,
\* and never applied, even though the team is created later in the run.
C35_RulesetsBeforeTeams ==
    DeclarationsLoaded =>
        /\ \A i \in 1..Len(log) : \A j \in 1..Len(log) :
              (log[i].cat = "Ruleset" /\ log[j].op \in TeamWrites) => i < j
        /\ \A d \in 1..RulesetsDone :
              LET ruleset == goal.branchRulesets[d]
                  accepted == \E i \in 1..Len(log) :
                                 log[i] = Prompt("Ruleset", ruleset.name, TRUE)
              IN (accepted /\ MissingTeamsOf(ruleset) # {}) =>
                    /\ \E n \in 1..Len(results.failed) :
                          /\ results.failed[n].cat = "Ruleset"
                          /\ results.failed[n].key = ruleset.name
                          /\ results.failed[n].error.kind = "unresolved"
                          /\ results.failed[n].error.team \in MissingTeamsOf(ruleset)
                    /\ ~HasEntry(results.successful, "Ruleset", ruleset.name)
                    /\ RulesetOpsFor(ruleset.name) = {}

\* the ruleset failed on the team `staff`, which the run created afterwards
C35_Witness ==
    /\ cmd = "configure-org" /\ pc = "done"
    /\ \E n \in 1..Len(results.failed) :
          /\ results.failed[n].cat = "Ruleset"
          /\ results.failed[n].error = Unresolved("staff")
    /\ \E i \in 1..Len(log) : log[i] = Call("teams.create", "Team", "Staff", TRUE)
    /\ TeamIndex(remote.teams, "staff") # 0

\* the declared name in small letters, every run of blanks a hyphen
ExpectedSlug(name) ==
    CASE name = "Staff" -> "staff"
      [] name = "Course  Staff" -> "course-staff"
      [] name = "tutors" -> "tutors"

\* the operations of the team writes issued for the declared name
TeamOpsFor(name) ==
    {log[i].op : i \in {n \in 1..Len(log) :
        log[n].op \in {"teams.create", "teams.updateInOrg"} /\ log[n].key = name}}

\* the declared teams whose turn is over
TeamsDone ==
    IF pc = "teams" THEN Len(goal.teams) - Len(work)
    ELSE IF pc \in {"labels", "summary", "done"} THEN Len(goal.teams)
    ELSE 0

RepoCalls(ops, repo) ==
    SelectSeq(log, LAMBDA e : e.op \in ops /\ e.cat = "Labels" /\ e.key = repo)

\* the entries of `failed` for the label of the repository, the label ""
\* standing for the repository itself
LabelFailures(repo, label) ==
    SelectSeq(results.failed, LAMBDA e : e = Entry("Labels", repo, label, ApiError))

\* the labels section has applied the labels to the repositories found
LabelsApplied ==
    /\ DeclarationsLoaded /\ pc \in {"summary", "done"}
    /\ \E i \in 1..Len(log) : log[i] = Prompt("Labels", "Apply to existing repos", TRUE)

C38_NamedTeamResolves ==
    rsCall.done =>
        LET given == rsCall.ruleset.bypass_actors
            known(i) == /\ IsTeamReference(given[i])
                        /\ TeamIndex(rsCall.r.teams, Slugify(given[i].team)) # 0
        IN /\ \A i \in 1..Len(given) :
                 known(i) => rsCall.res.error # Unresolved(given[i].team)
           /\ rsCall.res.ok =>
                 \A i \in 1..Len(given) :
                     known(i) =>
                         ActorsWritten[i].actor_id =
                             rsCall.r.teams[TeamIndex(rsCall.r.teams,
                                                      Slugify(given[i].team))].id

\* a bypass actor that names a remote team by its slug resolves to the
\* identifier of that team
SlugResolves ==
    (rsCall.done /\ rsCall.res.ok) =>
        LET given == rsCall.ruleset.bypass_actors
        IN \A i \in 1..Len(given) :
               (IsTeamReference(given[i]) /\ TeamIndex(rsCall.r.teams, given[i].team) # 0)
                   => ActorsWritten[i].actor_id =
                          rsCall.r.teams[TeamIndex(rsCall.r.teams, given[i].team)].id

\* the desired state of the category is known to the run
DesiredKnown ==
    /\ cmd \in {"configure-org", "restore-org"}
    /\ pc \in {"variables", "secrets", "privileges", "rulesets", "teams", "labels",
               "summary", "done"}

\* the successful writes of the run to a variable or a privilege
SettingWrites ==
    {i \in 1..Len(log) :
        IsWrite(log[i]) /\ log[i].ok /\ log[i].cat \in {"Variable", "Privilege"}}

\* every successful write to a key the desired state holds left the desired
\* value under that key
WrittenValueIsDesired ==
    DesiredKnown =>
        \A i \in SettingWrites :
            LET k == log[i].key
            IN /\ (log[i].cat = "Variable" /\ k \in DOMAIN goal.actionVariables) =>
                     remote.variables[k] = ToStringValue(goal.actionVariables[k])
               /\ (log[i].cat = "Privilege" /\ k \in DOMAIN goal.memberPrivileges) =>
                     Get(remote.org, k) = goal.memberPrivileges[k]

\* C39: every value configure-org or restore-org writes to a remote variable
\* or privilege is the value the desired state holds for that key; for a key
\* absent from the desired state no value is written under that key, and the
\* change is recorded in `successful` only if the key is then absent remotely.
C39_WritesOnlyDesiredValues ==
    /\ WrittenValueIsDesired
    /\ DesiredKnown =>
          /\ \A i \in SettingWrites :
                (log[i].cat = "Variable" /\ log[i].key \notin DOMAIN goal.actionVariables)
                    => log[i].key \notin DOMAIN remote.variables
          /\ \A i \in 1..Len(results.successful) :
                LET e == results.successful[i]
                IN /\ (e.cat = "Variable" /\ e.key \notin DOMAIN goal.actionVariables)
                         => e.key \notin DOMAIN remote.variables
                   /\ (e.cat = "Privilege" /\ e.key \notin DOMAIN goal.memberPrivileges)
                         => Get(remote.org, e.key) = Undef

(***************************************************************************)
(* Claims about BackupManager.                                             *)
(***************************************************************************)
\* the captures taken so far, by their place in the history
Captures == 1..Len(store.captures)

\* C24: the locator of a snapshot is derived from the capture time at
\* one-second granularity: two captures within the same second get the same
\* locator, the later overwriting the earlier, and captures in different
\* seconds get distinct locators.
C24_LocatorPerSecond ==
    \A i \in Captures : \A j \in Captures :
        (store.captures[i].at.s = store.captures[j].at.s)
            <=> (store.captures[i].locator = store.captures[j].locator)

\* a value of the Snapshot shape: a timestamp, and settings with the
\* categories
IsSnapshot(v) ==
    /\ {"timestamp", "settings"} \subseteq DOMAIN v
    /\ {"actionVariables", "actionSecrets", "memberPrivileges", "branchRulesets", "teams"}
          \subseteq DOMAIN v.settings

\* C25: readBackup(locator) fails with a not-found error when the locator
\* does not exist and with a corrupt-snapshot error when the content cannot
\* be parsed into the Snapshot shape, well-formed JSON that lacks the shape
\* included; it never returns a value that is not a Snapshot.
C25_ReadBackupValidates ==
    store.out.op = "readBackup" =>
        LET there == store.exists /\ store.out.arg \in DOMAIN store.dir
        IN /\ ~there => store.out.error = "ENOENT"
           /\ (there /\ "unparsable" \in DOMAIN store.dir[store.out.arg])
                 => store.out.error = "SyntaxError"
           /\ store.out.error = "" => IsSnapshot(store.out.value)

\* the names in the directory that are those of snapshot files
SnapshotNames ==
    {f \in DOMAIN store.dir :
        /\ startsWith(f, <<"b", "a", "c", "k", "u", "p", "-">>)
        /\ endsWith(f, <<".", "j", "s", "o", "n">>)}

\* the places of the locator in the list returned
PlacesOf(locator) ==
    {n \in 1..Len(store.out.names) : store.out.names[n] = locator}

\* C26: listBackups returns exactly the existing snapshot files (names
\* starting with backup- and ending with .json), each once, sorted by
\* locator in descending order, so that a snapshot captured later precedes
\* one captured earlier; it returns the empty list when the directory does
\* not exist.
C26_ListBackupsSorted ==
    store.out.op = "listBackups" =>
        LET names == store.out.names
        IN /\ ~store.exists => names = <<>>
           /\ store.exists => {names[n] : n \in 1..Len(names)} = SnapshotNames
           /\ \A m \in 1..Len(names) : \A n \in 1..Len(names) :
                 m < n => Precedes(names[n], names[m])
           /\ \A i \in Captures : \A j \in Captures :
                 Later(store.captures[i].at, store.captures[j].at) =>
                    \A m \in PlacesOf(store.captures[i].locator) :
                       \A n \in PlacesOf(store.captures[j].locator) : n < m

\* two snapshots captured in different seconds, and a file that is none,
\* are in the directory listed
C26_Witness ==
    /\ store.out.op = "listBackups"
    /\ Len(store.out.names) >= 3
    /\ NotesFile \in DOMAIN store.dir
    /\ \E i \in Captures : \E j \in Captures :
          store.captures[i].at.s < store.captures[j].at.s

\* the capture that wrote the file read last, if one did and none wrote
\* the file after it
LastCaptureOf(locator) ==
    {i \in Captures :
        /\ store.captures[i].locator = locator
        /\ \A j \in Captures : j > i => store.captures[j].locator # locator}

\* C27: capture stores the state verbatim: the settings of
\* readBackup(createBackup(s)) are deeply equal to s, so that compare of a
\* mapping category of s with the same category read back is empty.
C27_CaptureRoundTrip ==
    (store.out.op = "readBackup" /\ store.out.error = "") =>
        \A i \in LastCaptureOf(store.out.arg) :
            LET s == BackupData(store.captures[i].settings)
                back == store.out.value.settings
            IN /\ back = s
               /\ compare(s.actionVariables, back.actionVariables) = <<>>
               /\ compare(s.memberPrivileges, back.memberPrivileges) = <<>>

(***************************************************************************)
(* Claims about the readers of the service and about confirm.              *)
(***************************************************************************)
\* C28: for every category the remote reader returns an empty state and
\* never throws when the remote answers not-found: the readers of
\* variables, secret names, member privileges, rulesets and teams alike.
C28_NotFoundIsEmpty ==
    (utilCall.fn \in Readers /\ utilCall.done /\ utilCall.answer = "notfound") =>
        ~utilCall.res.threw /\ utilCall.res.value = <<>>

\* str holds sub as a substring
Contains(str, sub) ==
    \E i \in 0..(Len(str) - Len(sub)) : SubSeq(str, i + 1, i + Len(sub)) = sub

\* the answer without the blanks around it, capitals made small letters
Normalized(answer) ==
    LET inner == {i \in 1..Len(answer) : answer[i] # " "}
        capital == [c \in AnswerChars |->
                       IF c = "N" THEN "n" ELSE IF c = "O" THEN "o" ELSE c]
    IN IF inner = {} THEN <<>>
       ELSE LET from == CHOOSE i \in inner : \A j \in inner : i <= j
                to == CHOOSE i \in inner : \A j \in inner : i >= j
            IN [i \in 1..(to - from + 1) |-> capital[answer[from + i - 1]]]

\* C29: confirm is not resolved before an answer has arrived, and it
\* returns false exactly when the answer, trimmed and lower-cased, is `n` or
\* `no`; every other answer, the empty one included, is affirmative.  The
\* prompt text always carries `(Y/n)`.
C29_ConfirmDefaultsToYes ==
    utilCall.fn = "confirm" =>
        /\ utilCall.at = "called" => utilCall.text = <<>> /\ utilCall.result
        /\ utilCall.at # "called" =>
              /\ Contains(utilCall.text, utilCall.question)
              /\ Contains(utilCall.text, <<"(", "Y", "/", "n", ")">>)
        /\ utilCall.at = "resolved" =>
              (~utilCall.result <=> Normalized(utilCall.answer) \in {<<"n">>, <<"n", "o">>})

\* ` No` was typed and confirm returned false
C29_Witness ==
    /\ utilCall.fn = "confirm" /\ utilCall.at = "resolved"
    /\ utilCall.answer = <<" ", "N", "o">> /\ ~utilCall.result

\* how far configure-org has come
Progress(at) ==
    CASE at = "start" -> 0
      [] at = "backup" -> 1
      [] at = "load" -> 2
      [] at = "variables" -> 3
      [] at = "secrets" -> 4
      [] at = "privileges" -> 5
      [] at = "rulesets" -> 6
      [] at = "teams" -> 7
      [] at = "labels" -> 8
      [] at = "summary" -> 9
      [] at \in {"done", "aborted"} -> 10

\* the sum of a sequence of numbers
RECURSIVE Sum(_)
Sum(seq) == IF seq = <<>> THEN 0 ELSE Head(seq) + Sum(Tail(seq))

\* the prompts and calls a run can take: the reads of the start; a prompt
\* and a write for each change of the diffs; a prompt, a write and the team
\* lookups for each declared ruleset; a prompt, a write and the member
\* upserts for each declared team; the listing of the repositories, a
\* prompt, and for each matching repository a listing and a write per label
Budget ==
    LET diffs == Len(ConfigureWork("variables", cur, goal))
                 + Len(ConfigureWork("secrets", cur, goal))
                 + Len(ConfigureWork("privileges", cur, goal))
        actors == [i \in 1..Len(goal.branchRulesets) |->
                      2 + Len(goal.branchRulesets[i].bypass_actors)]
        members == [i \in 1..Len(goal.teams) |-> 2 + Len(goal.teams[i].members)]
        matching == getRepositories(remote, goal.labels.apply_to_repos, "ok").repos
    IN 5 + 2 * diffs
       + Sum(actors) + Sum(members)
       + (IF goal.labels.labels = <<>> THEN 0
          ELSE 2 + Len(matching) * (1 + Len(goal.labels.labels)))

\* the number of times the current variables were read
Fetches == Cardinality({i \in 1..Len(log) : log[i].op = "listOrgVariables"})

\* C30: with every prompt answered and every remote call returning or
\* failing in the end, configure-org reaches its final summary, or ends on
\* an error, after a number of prompts and calls bounded by the sizes of
\* the diff, the declared rulesets, teams, members and labels and the
\* matching repositories; it reads the current state once and never goes
\* back to an earlier category.
C30_RunTerminates ==
    /\ <>(pc \in {"done", "aborted"})
    /\ [](Fetches <= 1 /\ Len(log) <= (IF goal = NoGoal THEN 5 ELSE Budget))
    /\ [][Progress(pc') >= Progress(pc)]_vars

\* a run that came to its summary through prompts of all six categories,
\* with as many prompts and calls as the bound allows
C30_Witness ==
    /\ pc = "done"
    /\ Len(log) = Budget
    /\ {log[i].cat : i \in PromptsAndWrites} =
          {"Variable", "Secret", "Privilege", "Ruleset", "Team", "Labels"}

\* C32: setActionVariable issues update only for a key that exists
\* remotely and create only for one that does not, in every interleaving
\* with an external actor that creates or deletes the variable between the
\* existence check and the write; when it returns without error exactly one
\* write succeeded and the remote value of the name is the canonical text
\* of the value.
C32_UpdateOnlyExisting ==
    utilCall.fn = "setActionVariable" =>
        /\ \A i \in 1..Len(utilCall.writes) :
              utilCall.writes[i].existed <=> utilCall.writes[i].op = "updateOrgVariable"
        /\ utilCall.at = "done" =>
              /\ Cardinality({i \in 1..Len(utilCall.writes) : utilCall.writes[i].ok}) = 1
              /\ utilCall.variables[utilCall.name] = ToStringValue(utilCall.value)

\* the second half of C32 alone: a return without error follows exactly one
\* successful write, and the value is stored
ReturnedAfterOneWrite ==
    (utilCall.fn = "setActionVariable" /\ utilCall.at = "done") =>
        /\ Cardinality({i \in 1..Len(utilCall.writes) : utilCall.writes[i].ok}) = 1
        /\ utilCall.variables[utilCall.name] = ToStringValue(utilCall.value)

(***************************************************************************)
(* Claims about BranchService.createBranches.                              *)
(***************************************************************************)
\* the branches of the create calls answered with the status, in order
AnsweredWith(status) ==
    LET hits == SelectSeq(utilCall.calls, LAMBDA c : c.status = status)
    IN [i \in 1..Len(hits) |-> hits[i].ref]

\* the branches of the create calls answered with an error other than 422
AnsweredOtherwise ==
    LET hits == SelectSeq(utilCall.calls, LAMBDA c : c.status \notin {"201", "422"})
    IN [i \in 1..Len(hits) |-> hits[i].ref]

\* C40: createBranches, once the repository and the reference of its default
\* branch are read, attempts every requested branch once and in order, all
\* from the same commit, and places each in exactly one of created, existing
\* (answer 422) and failed (any other error), no failure stopping the rest;
\* when the repository or the reference cannot be read it throws and issues
\* no create call.
C40_EveryBranchPlacedOnce ==
    utilCall.fn = "createBranches" =>
        LET calls == utilCall.calls
            res == utilCall.results
        IN /\ Len(calls) <= Len(utilCall.branches)
           /\ \A i \in 1..Len(calls) :
                 /\ calls[i].ref = utilCall.branches[i]
                 /\ calls[i].sha = utilCall.sha
           /\ res.created = AnsweredWith("201")
           /\ res.existing = AnsweredWith("422")
           /\ res.failed = AnsweredOtherwise
           /\ utilCall.at = "done" => Len(calls) = Len(utilCall.branches)
           /\ utilCall.at = "threw" => calls = <<>>
           /\ calls # <<>> => utilCall.at \in {"create", "done"}

\* three branches requested, the first fails, the second exists, the third
\* is created, after a push to the default branch during the loop
C40_Witness ==
    /\ utilCall.fn = "createBranches" /\ utilCall.at = "done"
    /\ utilCall.results = [created |-> <<"bth/submit/kmom10">>,
                           failed |-> <<"bth/submit/kmom03">>,
                           existing |-> <<"bth/submit/kmom06">>]
    /\ utilCall.head > utilCall.sha

(***************************************************************************)
(* Claims about compare and isEqual.                                       *)
(***************************************************************************)
\* the changes of the finished compare call that carry key k
ChangesOf(k) == SelectSeq(diffCall.changes, LAMBDA ch : ch.key = k)

\* C6: compare emits exactly one Change per key whose values differ, none
\* for a key whose values are equal, and none for a key in neither input.
C6_OneChangePerDifferingKey ==
    diffCall.done =>
        /\ \A k \in DiffKeys :
              Len(ChangesOf(k)) =
                  IF Get(diffCall.current, k) # Get(diffCall.desired, k) THEN 1 ELSE 0
        /\ \A i \in 1..Len(diffCall.changes) :
              diffCall.changes[i].key \in DOMAIN diffCall.current \cup DOMAIN diffCall.desired

\* C7: a Change is `add` exactly when its key is absent from current,
\* `remove` exactly when its key is absent from desired, `update` otherwise,
\* also when a present key carries null or undefined.
C7_Classification ==
    diffCall.done =>
        \A i \in 1..Len(diffCall.changes) :
            LET ch == diffCall.changes[i]
            IN /\ (ch.type = "add") <=> (ch.key \notin DOMAIN diffCall.current)
               /\ (ch.type = "remove") <=> (ch.key \notin DOMAIN diffCall.desired)
               /\ (ch.type = "update") <=>
                     (ch.key \in DOMAIN diffCall.current \cap DOMAIN diffCall.desired)

RECURSIVE WellFormed(_)
\* a state value as a JSON document holds it: no undefined anywhere
WellFormed(v) ==
    /\ v.kind # "undefined"
    /\ v.kind \in {"array", "object"} => \A key \in OwnKeys(v) : WellFormed(Prop(v, key))

WellFormedSettings(s) == \A k \in DOMAIN s : WellFormed(s[k])

\* C8: compare(S, S) is the empty list for every well-formed state S.
C8_CompareSelfEmpty ==
    (/\ diffCall.done
     /\ diffCall.current = diffCall.desired
     /\ WellFormedSettings(diffCall.current)) => diffCall.changes = <<>>

\* C8 witness: a state with a scalar and a nested composite was compared
\* with itself.
C8_Witness ==
    /\ diffCall.done
    /\ diffCall.current = diffCall.desired
    /\ DOMAIN diffCall.current = DiffKeys
    /\ diffCall.current["A"] = Str(Raw("x"))
    /\ diffCall.current["B"] = Obj([k \in {"a"} |-> Arr(<<Num(1)>>)])
    /\ diffCall.changes = <<>>

\* C9: under isEqual null and undefined are equal to each other, and each
\* is unequal to every defined value.
C9_NullEqualsMissing ==
    eqCall.done =>
        /\ (IsNullish(eqCall.a) /\ IsNullish(eqCall.b)) => eqCall.result
        /\ (IsNullish(eqCall.a) # IsNullish(eqCall.b)) => ~eqCall.result

\* scalar, sequence or mapping (null and undefined are no kind of value)
KindClass(v) ==
    CASE v.kind = "array" -> "sequence"
      [] v.kind = "object" -> "mapping"
      [] v.kind \in {"number", "string", "boolean"} -> "scalar"
      [] OTHER -> "none"

RECURSIVE SameShape(_, _)
\* a and b have the same kind at every level, and equal scalars
SameShape(a, b) ==
    /\ KindClass(a) = KindClass(b)
    /\ IF a.kind \in {"array", "object"}
       THEN /\ OwnKeys(a) = OwnKeys(b)
            /\ \A key \in OwnKeys(a) : SameShape(Prop(a, key), Prop(b, key))
       ELSE a = b

\* C10: under isEqual two values of differing kinds (scalar, sequence,
\* mapping) are unequal, at the top and in nested occurrences.
C10_KindsDiffer ==
    (eqCall.done /\ eqCall.result) => SameShape(eqCall.a, eqCall.b)

====
